---- MODULE Spec2Model ----
(***************************************************************************)
(* go-chat: the WebSocket hub (package websocket: Hub, Message), its       *)
(* clients (Client, readPump, writePump) and the upgrade handler           *)
(* (cmd/api/websocket.go), as one state machine.                           *)
(*                                                                         *)
(* Each connection c has three goroutines: the upgrade handler (hpc), the  *)
(* reader readPump (rpc) and the writer writePump (wpc).  The hub is one   *)
(* goroutine that is always at its select; a hub action is the receive on  *)
(* one of its three channels together with the whole handler it calls.     *)
(* register and unregister are unbuffered channels: a send is a rendezvous *)
(* with the hub, so the sender's position is the channel's state.          *)
(***************************************************************************)
EXTENDS Integers, Sequences, FiniteSets, TLC

\* ------------------------------------------------------------------ bounds
\* Capacity of Client.send; the code uses 256 (cmd/api/websocket.go:82).
SendCap == 2
\* Capacity of Hub.broadcast; the code uses 256 (NewHub).
BroadcastCap == 1

\* The number of rows the messages table may hold when history is retrieved.
MaxRows == 3
\* the limit getRoomMessagesHandler asks for
HistoryLimit == 100
\* The number of WebSocket objects one WebSocketClient may create.
MaxSockets == 7
\* WebSocketClient.maxReconnectAttempts
maxReconnectAttempts == 5

\* the WebSocketClient objects the page creates, in this order
JSClients == {1, 2}

\* the connection objects (*Client) that are ever constructed
Conns == {1, 2}
\* room ids a client may ask for (the {roomID} of the URL)
RoomIDs == {7, 8}
\* users table: id -> username
Usernames == <<"alice", "bob">>
\* the user the token of connection c's upgrade request authenticates
AuthUser(c) == c
\* room_members table: the rows (room_id, user_id) it holds at the start
RoomMembers == {<<7, 1>>, <<7, 2>>, <<8, 2>>}
\* the {roomID} parameter of the URL, as text
UrlParams == {"7", "8", "x"}
\* a JWT: the user of its claims and whether it verifies ("ok"), verifies
\* but has expired, or does not verify under the server's secret ("forged")
Token(userID, state) == [user |-> userID, state |-> state]
\* the Authorization header of connection c's request, split at the blanks:
\* absent, without a token, of another scheme, or a bearer token
Headers(c) ==
    {<< >>, <<"Bearer">>, <<"Basic", Token(AuthUser(c), "ok")>>}
    \cup {<<"Bearer", Token(AuthUser(c), st)>> : st \in {"ok", "expired", "forged"}}
\* the payloads of the inbound frames the peers send, in the order in which
\* the readers read them; a text is a sequence of pieces
Inbound == << <<"hello">>, <<"bye">> >>

\* the room and the connection whose histories SpecTraced keeps
TracedRooms == {7}
TracedConns == {1}

NoClient == [roomID |-> 0, userID |-> 0, username |-> ""]
NoRequest == [header |-> << >>, roomID |-> "", members |-> "-", user |-> "-",
              upgrade |-> "-"]

VARIABLES
    rooms,      \* Hub.rooms: a map, room id -> set of clients (a key may be absent)
    broadcast,  \* Hub.broadcast: buffered channel of *Message
    messages,   \* the messages table behind store.Messages
    panicked,   \* the hub goroutine panicked (send on / close of a closed channel)
    last,       \* the hub's last step: its case, its client and the lines it logged
    client,     \* the Client struct of each connection: roomID, userID, username
    send,       \* Client.send: the buffered items of the channel
    sendOpen,   \* Client.send has not been closed
    connOpen,   \* Client.conn has not been closed locally
    hpc,        \* position of websocketHandler for each connection
    rpc,        \* position of readPump for each connection
    rmsg,       \* the *Message readPump is about to send on Hub.broadcast
    wpc,        \* position of writePump for each connection
    nread,      \* the number of inbound frames read so far, by all readers
    request,    \* the upgrade request served for each connection, with the outcomes
                \* of the calls made while serving it ("-": not called)
    response,   \* the HTTP status the request was answered with (0: not answered)
    wsClient,   \* ChatApp.wsClient: the WebSocketClient created last (0: null)
    joining,    \* ChatApp.joinRoom is between its disconnect() and its connectWebSocket()
    ws,         \* WebSocketClient.ws: "null" or "socket", the WebSocket created last
    readyState, \* readyState of the WebSocket a WebSocketClient created last
    reconnectAttempts,  \* WebSocketClient.reconnectAttempts
    timers,     \* the pending setTimeout callbacks of a WebSocketClient
    sockets,    \* history: the number of WebSockets a WebSocketClient has created
    history,    \* the last history retrieval: the call and what it returned
    rerr,       \* per traced connection, the err of its readPump
    calls,      \* history, when on: the calls of the hub's last step, in order
    room_members, \* the table room_members: the rows (room_id, user_id)
    closing,    \* per traced connection, what became of the close frame of its
                \* writePump: "" (not written), "sent" or "failed"
    processed,  \* history, per traced room: the messages the hub broadcast to it, marshalled
    written     \* history, per traced connection: the frames written to its socket,
                \* each frame the sequence of the messages coalesced in it

\* the variables of the page (ChatApp, WebSocketClient)
page == <<wsClient, joining, ws, readyState, reconnectAttempts, timers, sockets>>

\* the variables of the server
server == <<rooms, broadcast, messages, panicked, last, client, send, sendOpen,
            connOpen, hpc, rpc, rmsg, wpc, nread, request, response, processed,
            written, rerr, closing, calls, room_members>>

vars == <<server, page, history>>

NoMsg == [RoomID |-> 0, UserID |-> 0, Username |-> "", Content |-> <<>>, Type |-> ""]

\* ------------------------------------------------------------ Message, JSON
\* type Message struct (package websocket)
Message(roomID, userID, username, content, type) ==
    [RoomID |-> roomID, UserID |-> userID, Username |-> username,
     Content |-> content, Type |-> type]

\* json.Marshal(message): one object, the struct's fields in order under their
\* json tags.  The struct has no created_at field.
Marshal(m) ==
    << <<"room_id", m.RoomID>>, <<"user_id", m.UserID>>,
       <<"username", m.Username>>, <<"content", m.Content>>,
       <<"type", m.Type>> >>

\* the orders in which `for client := range clients` may visit the set S
Orders(S) ==
    {o \in [1..Cardinality(S) -> S] : \A i, j \in DOMAIN o : o[i] = o[j] => i = j}

\* ------------------------------------------------------------ hub handlers
\* The handlers are functions of the hub's state h: the registry, every
\* client's queue and whether it is open, whether the goroutine panicked, and
\* the lines the handler has logged so far.
HubState ==
    [rooms |-> rooms, send |-> send, open |-> sendOpen, panic |-> panicked,
     log |-> << >>, processed |-> processed,
     calls |-> [on |-> calls.on, seq |-> << >>]]

\* the hub has made the call: it is added to the history of the step
called(h, call, c) ==
    IF h.calls.on THEN [h EXCEPT !.calls.seq = Append(@, [call |-> call, client |-> c])]
    ELSE h

\* log.Printf(...): one line of the hub's log
Line(event, userID, roomID, count) ==
    [event |-> event, user |-> userID, room |-> roomID, count |-> count]

logf(h, line) == [h EXCEPT !.log = Append(@, line)]

\* close(client.send): closing a closed channel panics
closeSend(h, c) ==
    IF h.open[c] THEN [h EXCEPT !.open[c] = FALSE]
    ELSE [h EXCEPT !.panic = TRUE]

\* delete(clients, client) on the set of room roomID
deleteClient(h, roomID, c) ==
    [h EXCEPT !.rooms[roomID] = @ \ {c}]

\* deleteRoom that leaves the emptied entry in the map
deleteRoom_KeepEntry(h, roomID) == h

\* delete(h.rooms, roomID)
deleteRoom(h, roomID) ==
    [h EXCEPT !.rooms = [r \in DOMAIN h.rooms \ {roomID} |-> h.rooms[r]]]

\* trySend that puts the message at the head of the queue
trySend_AtHead(h, roomID, c, jsonMessage) ==
    IF ~h.open[c] THEN [h EXCEPT !.panic = TRUE]
    ELSE IF Len(h.send[c]) < SendCap
         THEN [h EXCEPT !.send[c] = <<jsonMessage>> \o @]
         ELSE logf(deleteClient(closeSend(h, c), roomID, c),
                   Line("removed: full buffer", client[c].userID, roomID, 0))

\* trySend whose capacity test is off by one
trySend_OffByOne(h, roomID, c, jsonMessage) ==
    IF ~h.open[c] THEN [h EXCEPT !.panic = TRUE]
    ELSE IF Len(h.send[c]) <= SendCap
         THEN [h EXCEPT !.send[c] = Append(@, jsonMessage)]
         ELSE logf(deleteClient(closeSend(h, c), roomID, c),
                   Line("removed: full buffer", client[c].userID, roomID, 0))

\* trySend that sends the message a second time when the queue has room
trySend_Twice(h, roomID, c, jsonMessage) ==
    IF ~h.open[c] THEN [h EXCEPT !.panic = TRUE]
    ELSE IF Len(h.send[c]) < SendCap
         THEN [h EXCEPT !.send[c] = IF Len(@) + 1 < SendCap
                                    THEN Append(Append(@, jsonMessage), jsonMessage)
                                    ELSE Append(@, jsonMessage)]
         ELSE logf(deleteClient(closeSend(h, c), roomID, c),
                   Line("removed: full buffer", client[c].userID, roomID, 0))

\* trySend that closes the full queue and leaves the client in the room's set
trySend_EvictKeepsMember(h, roomID, c, jsonMessage) ==
    IF ~h.open[c] THEN [h EXCEPT !.panic = TRUE]
    ELSE IF Len(h.send[c]) < SendCap
         THEN [h EXCEPT !.send[c] = Append(@, jsonMessage)]
         ELSE logf(closeSend(h, c),
                   Line("removed: full buffer", client[c].userID, roomID, 0))

\* select { case client.send <- jsonMessage: default: close(client.send);
\* delete(clients, client); log }.  A send on a closed channel panics.
trySend(h, roomID, c, jsonMessage) ==
    IF ~h.open[c] THEN [h EXCEPT !.panic = TRUE]
    ELSE IF Len(h.send[c]) < SendCap
         THEN called([h EXCEPT !.send[c] = Append(@, jsonMessage)], "send", c)
         ELSE logf(deleteClient(closeSend(h, c), roomID, c),
                   Line("removed: full buffer", client[c].userID, roomID, 0))

\* fanOut that leaves the loop at the first eviction
RECURSIVE fanOut_StopAtEviction(_, _, _, _)
fanOut_StopAtEviction(h, roomID, jsonMessage, o) ==
    IF o = << >> \/ h.panic THEN h
    ELSE LET h1 == trySend(h, roomID, Head(o), jsonMessage)
         IN IF Head(o) \notin h1.rooms[roomID] THEN h1
            ELSE fanOut_StopAtEviction(h1, roomID, jsonMessage, Tail(o))

\* for client := range clients { ... }, visiting the clients in the order o
RECURSIVE fanOut(_, _, _, _)
fanOut(h, roomID, jsonMessage, o) ==
    IF o = << >> \/ h.panic THEN h
    ELSE fanOut(trySend(h, roomID, Head(o), jsonMessage), roomID, jsonMessage, Tail(o))

\* broadcastToRoom that offers the message to the clients of every room
broadcastToRoom_EveryRoom(h0, roomID, message, o) ==
    LET h == IF roomID \in DOMAIN h0.processed
             THEN [h0 EXCEPT !.processed[roomID] = Append(@, Marshal(message))]
             ELSE h0
    IN
    IF roomID \notin DOMAIN h.rooms THEN h
    ELSE LET h1 == fanOut(h, roomID, Marshal(message),
                          SelectSeq(o, LAMBDA c : \E r \in DOMAIN h.rooms : c \in h.rooms[r]))
         IN IF h1.panic THEN h1
            ELSE logf(h1, Line("broadcasted", 0, roomID, Cardinality(h1.rooms[roomID])))

\* broadcastToRoom that skips the clients of the message's sender
broadcastToRoom_SkipSender(h0, roomID, message, o) ==
    LET h == IF roomID \in DOMAIN h0.processed
             THEN [h0 EXCEPT !.processed[roomID] = Append(@, Marshal(message))]
             ELSE h0
    IN
    IF roomID \notin DOMAIN h.rooms THEN h
    ELSE LET h1 == fanOut(h, roomID, Marshal(message),
                          SelectSeq(o, LAMBDA c : /\ c \in h.rooms[roomID]
                                                  /\ client[c].userID # message.UserID))
         IN IF h1.panic THEN h1
            ELSE logf(h1, Line("broadcasted", 0, roomID, Cardinality(h1.rooms[roomID])))

\* func (h *Hub) broadcastToRoom(roomID, message); o orders the connections,
\* and the clients of the room are visited in that order.  The call is
\* recorded in the history of a traced room.
broadcastToRoom(h0, roomID, message, o) ==
    LET h == IF roomID \in DOMAIN h0.processed
             THEN [h0 EXCEPT !.processed[roomID] = Append(@, Marshal(message))]
             ELSE h0
    IN
    IF roomID \notin DOMAIN h.rooms THEN h
    ELSE LET h1 == fanOut(h, roomID, Marshal(message),
                          SelectSeq(o, LAMBDA c : c \in h.rooms[roomID]))
         IN IF h1.panic THEN h1
            ELSE logf(h1, Line("broadcasted", 0, roomID, Cardinality(h1.rooms[roomID])))

\* registerClient with the join message broadcast before the client is added
registerClient_JoinBeforeAdd(h, c, o) ==
    LET cl == client[c]
        joinMessage == Message(cl.roomID, cl.userID, cl.username,
                               <<cl.username, " joined the room">>, "join")
        h1 == broadcastToRoom(h, cl.roomID, joinMessage, o)
        h2 == IF cl.roomID \notin DOMAIN h1.rooms
              THEN [h1 EXCEPT !.rooms = [r \in DOMAIN h1.rooms \cup {cl.roomID} |->
                                            IF r = cl.roomID THEN {} ELSE h1.rooms[r]]]
              ELSE h1
    IN [h2 EXCEPT !.rooms[cl.roomID] = @ \cup {c}]

\* registerClient that adds the client to every room of the registry as well
registerClient_EveryRoom(h, c, o) ==
    LET cl == client[c]
        h1 == IF cl.roomID \notin DOMAIN h.rooms
              THEN [h EXCEPT !.rooms = [r \in DOMAIN h.rooms \cup {cl.roomID} |->
                                           IF r = cl.roomID THEN {} ELSE h.rooms[r]]]
              ELSE h
        h2 == [h1 EXCEPT !.rooms = [r \in DOMAIN h1.rooms |-> h1.rooms[r] \cup {c}]]
        h3 == logf(h2, Line("registered", cl.userID, cl.roomID,
                            Cardinality(h2.rooms[cl.roomID])))
        joinMessage == Message(cl.roomID, cl.userID, cl.username,
                               <<cl.username, " joined the room">>, "join")
    IN broadcastToRoom(h3, cl.roomID, joinMessage, o)

\* func (h *Hub) registerClient(client)
registerClient(h, c, o) ==
    LET cl == client[c]
        h1 == IF cl.roomID \notin DOMAIN h.rooms
              THEN [h EXCEPT !.rooms = [r \in DOMAIN h.rooms \cup {cl.roomID} |->
                                           IF r = cl.roomID THEN {} ELSE h.rooms[r]]]
              ELSE h
        h2 == [h1 EXCEPT !.rooms[cl.roomID] = @ \cup {c}]
        h3 == logf(h2, Line("registered", cl.userID, cl.roomID,
                            Cardinality(h2.rooms[cl.roomID])))
        joinMessage == Message(cl.roomID, cl.userID, cl.username,
                               <<cl.username, " joined the room">>, "join")
    IN broadcastToRoom(h3, cl.roomID, joinMessage, o)

\* unregisterClient with the leave message broadcast before the client is removed
unregisterClient_LeaveBeforeRemove(h, c, o) ==
    LET cl == client[c] IN
    IF cl.roomID \in DOMAIN h.rooms /\ c \in h.rooms[cl.roomID]
    THEN LET leaveMessage == Message(cl.roomID, cl.userID, cl.username,
                                     <<cl.username, " left the room">>, "leave")
             h0 == broadcastToRoom(h, cl.roomID, leaveMessage, o)
             h1 == deleteClient(h0, cl.roomID, c)
             h2 == IF h0.open[c] THEN closeSend(h1, c) ELSE h1
         IN IF h2.rooms[cl.roomID] = {} THEN deleteRoom(h2, cl.roomID) ELSE h2
    ELSE h

\* unregisterClient without the check that the client is in its room's set
unregisterClient_NoMemberCheck(h, c, o) ==
    LET cl == client[c] IN
    IF cl.roomID \in DOMAIN h.rooms
    THEN LET h1 == deleteClient(h, cl.roomID, c)
             h2 == closeSend(h1, c)
             h4 == IF h2.rooms[cl.roomID] = {} THEN deleteRoom(h2, cl.roomID) ELSE h2
             leaveMessage == Message(cl.roomID, cl.userID, cl.username,
                                     <<cl.username, " left the room">>, "leave")
         IN IF h2.panic THEN h2 ELSE broadcastToRoom(h4, cl.roomID, leaveMessage, o)
    ELSE h

\* unregisterClient that does not close the client's queue
unregisterClient_LeavesQueueOpen(h, c, o) ==
    LET cl == client[c] IN
    IF cl.roomID \in DOMAIN h.rooms /\ c \in h.rooms[cl.roomID]
    THEN LET h2 == deleteClient(h, cl.roomID, c)
             h3 == logf(h2, Line("unregistered", cl.userID, cl.roomID,
                                 Cardinality(h2.rooms[cl.roomID])))
             h4 == IF h3.rooms[cl.roomID] = {}
                   THEN logf(deleteRoom(h3, cl.roomID),
                             Line("room removed", 0, cl.roomID, 0))
                   ELSE h3
             leaveMessage == Message(cl.roomID, cl.userID, cl.username,
                                     <<cl.username, " left the room">>, "leave")
         IN broadcastToRoom(h4, cl.roomID, leaveMessage, o)
    ELSE h

\* func (h *Hub) unregisterClient(client)
unregisterClient(h, c, o) ==
    LET cl == client[c] IN
    IF cl.roomID \in DOMAIN h.rooms /\ c \in h.rooms[cl.roomID]
    THEN LET h1 == deleteClient(h, cl.roomID, c)
             h2 == closeSend(h1, c)
             h3 == logf(h2, Line("unregistered", cl.userID, cl.roomID,
                                 Cardinality(h2.rooms[cl.roomID])))
             h4 == IF h3.rooms[cl.roomID] = {}
                   THEN logf(deleteRoom(h3, cl.roomID),
                             Line("room removed", 0, cl.roomID, 0))
                   ELSE h3
             leaveMessage == Message(cl.roomID, cl.userID, cl.username,
                                     <<cl.username, " left the room">>, "leave")
         IN IF h2.panic THEN h2 ELSE broadcastToRoom(h4, cl.roomID, leaveMessage, o)
    ELSE h

\* func (h *Hub) GetRoomClientCount(roomID)
GetRoomClientCount(h, roomID) ==
    IF roomID \in DOMAIN h.rooms THEN Cardinality(h.rooms[roomID]) ELSE 0

\* Create whose INSERT binds the room id and the user id in the wrong order
Create_IdsSwapped(table, dbMessage) ==
    Append(table, [ID |-> Len(table) + 1, RoomID |-> dbMessage.UserID,
                   UserID |-> dbMessage.RoomID, Content |-> dbMessage.Content])

\* store.Messages.Create: INSERT INTO messages (room_id, user_id, content)
\* VALUES ($1, $2, $3) RETURNING id
Create(table, dbMessage) ==
    Append(table, [ID |-> Len(table) + 1, RoomID |-> dbMessage.RoomID,
                   UserID |-> dbMessage.UserID, Content |-> dbMessage.Content])

\* handleBroadcast that creates the room's entry when it is missing, as
\* registerClient does
handleBroadcast_MakesRoom(h, table, message, saved, o) ==
    LET persist == message.Type = "message"
        dbMessage == [RoomID |-> message.RoomID, UserID |-> message.UserID,
                      Content |-> message.Content]
        h1 == IF persist /\ ~saved
              THEN logf(h, Line("save failed", message.UserID, message.RoomID, 0))
              ELSE h
        h2 == IF message.RoomID \in DOMAIN h1.rooms THEN h1
              ELSE [h1 EXCEPT !.rooms = [r \in DOMAIN h1.rooms \cup {message.RoomID} |->
                                            IF r = message.RoomID THEN {} ELSE h1.rooms[r]]]
    IN [table |-> IF persist /\ saved THEN Create(table, dbMessage) ELSE table,
        hub |-> broadcastToRoom(h2, message.RoomID, message, o)]

\* handleBroadcast that returns when Messages.Create failed
handleBroadcast_ReturnOnSaveError(h, table, message, saved, o) ==
    LET persist == message.Type = "message"
        dbMessage == [RoomID |-> message.RoomID, UserID |-> message.UserID,
                      Content |-> message.Content]
    IN IF persist /\ ~saved
       THEN [table |-> table,
             hub |-> logf(h, Line("save failed", message.UserID, message.RoomID, 0))]
       ELSE [table |-> IF persist THEN Create(table, dbMessage) ELSE table,
             hub |-> broadcastToRoom(h, message.RoomID, message, o)]

\* handleBroadcast that broadcasts the message before it saves it
handleBroadcast_BroadcastFirst(h, table, message, saved, o) ==
    LET persist == message.Type = "message"
        dbMessage == [RoomID |-> message.RoomID, UserID |-> message.UserID,
                      Content |-> message.Content]
        h1 == broadcastToRoom(h, message.RoomID, message, o)
        h2 == IF persist THEN called(h1, "Create", 0) ELSE h1
        h3 == IF persist /\ ~saved
              THEN logf(h2, Line("save failed", message.UserID, message.RoomID, 0))
              ELSE h2
    IN [table |-> IF persist /\ saved THEN Create(table, dbMessage) ELSE table,
        hub |-> h3]

\* func (h *Hub) handleBroadcast(message); saved: Messages.Create returned nil
\* within its 5 s deadline.  The result is the table and the hub's state.
\* Create has returned when broadcastToRoom is called.
handleBroadcast(h, table, message, saved, o) ==
    LET persist == message.Type = "message"
        dbMessage == [RoomID |-> message.RoomID, UserID |-> message.UserID,
                      Content |-> message.Content]
        h0 == IF persist THEN called(h, "Create", 0) ELSE h
        h1 == IF persist /\ ~saved
              THEN logf(h0, Line("save failed", message.UserID, message.RoomID, 0))
              ELSE h0
    IN [table |-> IF persist /\ saved THEN Create(table, dbMessage) ELSE table,
        hub |-> broadcastToRoom(h1, message.RoomID, message, o)]

\* the hub's state after the handler of case op, written back to the variables
SetHub(op, c, h) ==
    /\ rooms' = h.rooms
    /\ send' = h.send
    /\ sendOpen' = h.open
    /\ panicked' = h.panic
    /\ last' = [op |-> op, client |-> c, log |-> h.log]
    /\ processed' = h.processed
    /\ calls' = h.calls

\* ------------------------------------------------------------------- Init
\* a request without an Authorization header
Unauthenticated ==
    [header |-> << >>, roomID |-> "7", members |-> "-", user |-> "-", upgrade |-> "-"]

\* the server has started, nothing is in flight, and the requests of the
\* connections outside live have been answered already: they had no
\* Authorization header
InitConns(live) ==
    /\ rooms = << >>
    /\ broadcast = << >>
    /\ panicked = FALSE
    /\ last = [op |-> "", client |-> 0, log |-> << >>]
    /\ client = [c \in Conns |-> NoClient]
    /\ send = [c \in Conns |-> << >>]
    /\ sendOpen = [c \in Conns |-> TRUE]
    /\ connOpen = [c \in Conns |-> FALSE]
    /\ hpc = [c \in Conns |-> IF c \in live THEN "request" ELSE "rejected"]
    /\ rpc = [c \in Conns |-> "none"]
    /\ rmsg = [c \in Conns |-> NoMsg]
    /\ wpc = [c \in Conns |-> "none"]
    /\ nread = 0
    /\ request = [c \in Conns |-> IF c \in live THEN NoRequest ELSE Unauthenticated]
    /\ response = [c \in Conns |-> IF c \in live THEN 0 ELSE 401]
    /\ room_members = RoomMembers

\* the server has started: no client, no request, nothing in flight
InitHub == InitConns(Conns)

\* and the messages table is empty
InitProgram ==
    /\ InitHub
    /\ messages = << >>

NoHistory == [op |-> "", roomID |-> 0, limit |-> 0, status |-> 0, rows |-> << >>]

\* the page is loaded: no WebSocketClient has been constructed, and no
\* history has been retrieved
InitPage ==
    /\ history = NoHistory
    /\ wsClient = 0
    /\ joining = FALSE
    /\ ws = [k \in JSClients |-> "null"]
    /\ readyState = [k \in JSClients |-> "none"]
    /\ reconnectAttempts = [k \in JSClients |-> 0]
    /\ timers = [k \in JSClients |-> 0]
    /\ sockets = [k \in JSClients |-> 0]

\* the histories are kept for the rooms and connections in their domains:
\* here for none
Init ==
    /\ InitProgram
    /\ InitPage
    /\ processed = << >>
    /\ written = << >>
    /\ rerr = << >>
    /\ closing = << >>
    /\ calls = [on |-> FALSE, seq |-> << >>]

\* ------------------------------------------------------- websocketHandler
\* auth.ValidateToken(token, secret): the user id of the claims;
\* jwt.ParseWithClaims fails for a bad signature and for an expired token
ValidateToken(token) ==
    IF token.state # "ok" THEN [err |-> "failed to parse token", userID |-> 0]
    ELSE [err |-> "", userID |-> token.user]

\* AuthMiddleware: 401 unless the header is "Bearer <token>" with a token
\* that validates; then the user id is put into the request's context
AuthMiddleware(header) ==
    IF header = << >> THEN [status |-> 401, userID |-> 0]
    ELSE IF Len(header) # 2 \/ header[1] # "Bearer" THEN [status |-> 401, userID |-> 0]
    ELSE LET v == ValidateToken(header[2]) IN
         IF v.err # "" THEN [status |-> 401, userID |-> 0]
         ELSE [status |-> 0, userID |-> v.userID]

\* extractIDFromURL(r, "roomID"): strconv.ParseInt of the parameter
extractIDFromURL(param) ==
    IF param = "7" THEN [err |-> FALSE, id |-> 7]
    ELSE IF param = "8" THEN [err |-> FALSE, id |-> 8]
    ELSE [err |-> TRUE, id |-> 0]

\* IsUserInRoom that looks for the user in any room
IsUserInRoom_AnyRoom(roomID, userID) ==
    \E r \in RoomIDs : <<r, userID>> \in room_members

\* store.RoomMembers.IsUserInRoom: SELECT EXISTS(... WHERE room_id = $1 AND
\* user_id = $2)
IsUserInRoom(roomID, userID) == <<roomID, userID>> \in room_members

\* the status websocketHandler, behind AuthMiddleware, answers request req
\* with; 101: the connection was upgraded.  A failed Upgrade is answered by
\* the upgrader itself, with 400.
Status(req) ==
    LET a == AuthMiddleware(req.header)
        id == extractIDFromURL(req.roomID)
    IN IF a.status # 0 THEN a.status
       ELSE IF id.err THEN 400
       ELSE IF req.members = "error" THEN 500
       ELSE IF ~IsUserInRoom(id.id, a.userID) THEN 403
       ELSE IF req.user = "no rows" THEN 404
       ELSE IF req.user = "error" THEN 500
       ELSE IF req.upgrade = "error" THEN 400
       ELSE 101

\* the requests connection c may make, each with the outcomes of the calls
\* the handler makes for it: the membership query is made once the caller is
\* authenticated and the room id parsed, the user is looked up for a member,
\* the upgrade is tried once the user is found
Requests(c) ==
    {req \in [header : Headers(c), roomID : UrlParams,
              members : {"-", "ok", "error"}, user : {"-", "ok", "no rows", "error"},
              upgrade : {"-", "ok", "error"}] :
        LET a == AuthMiddleware(req.header)
            id == extractIDFromURL(req.roomID)
            asked == a.status = 0 /\ ~id.err
            found == asked /\ req.members = "ok" /\ IsUserInRoom(id.id, a.userID)
        IN /\ req.members = "-" <=> ~asked
           /\ req.user = "-" <=> ~found
           /\ req.upgrade = "-" <=> ~(found /\ req.user = "ok")}

\* GET /v1/rooms/{roomID}/ws through AuthMiddleware.  A request that fails a
\* check is answered with its status and the handler returns.  Otherwise the
\* connection is upgraded, the Client is constructed and the handler is at
\* `app.hub.register <- client`.
websocketHandler(c) ==
    /\ hpc[c] = "request"
    /\ \E req \in Requests(c) :
          /\ request' = [request EXCEPT ![c] = req]
          /\ response' = [response EXCEPT ![c] = Status(req)]
          /\ IF Status(req) = 101
             THEN LET userID == AuthMiddleware(req.header).userID
                      roomID == extractIDFromURL(req.roomID).id
                  IN /\ client' = [client EXCEPT ![c] =
                                       [roomID |-> roomID, userID |-> userID,
                                        username |-> Usernames[userID]]]
                     /\ connOpen' = [connOpen EXCEPT ![c] = TRUE]
                     /\ hpc' = [hpc EXCEPT ![c] = "register"]
             ELSE /\ hpc' = [hpc EXCEPT ![c] = "rejected"]
                  /\ UNCHANGED <<client, connOpen>>
    /\ UNCHANGED <<rooms, broadcast, messages, panicked, last, send, sendOpen,
                   rpc, rmsg, wpc, nread, processed, written, page, history, rerr, closing, calls, room_members>>

\* StartPumps that does not wait for the hub to take the Register
StartPumps_BeforeRegister(c) ==
    /\ hpc[c] \in {"register", "pumps"}
    /\ rpc[c] = "none"
    /\ hpc' = [hpc EXCEPT ![c] = IF @ = "pumps" THEN "done" ELSE @]
    /\ wpc' = [wpc EXCEPT ![c] = "select"]
    /\ rpc' = [rpc EXCEPT ![c] = "read"]
    /\ UNCHANGED <<rooms, broadcast, messages, panicked, last, client, send, sendOpen,
                   connOpen, rmsg, nread,
                   processed, written,
                   request, response, page, history, rerr, closing, calls, room_members>>

\* go client.writePump(); go client.readPump()
StartPumps(c) ==
    /\ hpc[c] = "pumps"
    /\ hpc' = [hpc EXCEPT ![c] = "done"]
    /\ wpc' = [wpc EXCEPT ![c] = "select"]
    /\ rpc' = [rpc EXCEPT ![c] = "read"]
    /\ UNCHANGED <<rooms, broadcast, messages, panicked, last, client, send, sendOpen,
                   connOpen, rmsg, nread,
                   processed, written,
                   request, response, page, history, rerr, closing, calls, room_members>>

\* ---------------------------------------------------------------- Hub.Run
\* HubRegister that hands the join message to Messages.Create, as
\* handleBroadcast does with a chat message
HubRegister_PersistsJoin(c) ==
    /\ ~panicked
    /\ hpc[c] = "register"
    /\ \E o \in Orders(Conns) : SetHub("register", c, registerClient(HubState, c, o))
    /\ hpc' = [hpc EXCEPT ![c] = "pumps"]
    /\ messages' = Create(messages, [RoomID |-> client[c].roomID,
                                      UserID |-> client[c].userID,
                                      Content |-> <<client[c].username, " joined the room">>])
    /\ UNCHANGED <<broadcast, client, connOpen, rpc, rmsg, wpc, nread, written,
                   request, response, page, history, rerr, closing, room_members>>

\* case client := <-h.register: h.registerClient(client)
HubRegister(c) ==
    /\ ~panicked
    /\ hpc[c] = "register"
    /\ \E o \in Orders(Conns) : SetHub("register", c, registerClient(HubState, c, o))
    /\ hpc' = [hpc EXCEPT ![c] = "pumps"]
    /\ UNCHANGED <<broadcast, messages, client, connOpen, rpc, rmsg, wpc, nread, written,
                   request, response, page, history, rerr, closing, room_members>>

\* case client := <-h.unregister: h.unregisterClient(client)
HubUnregister(c) ==
    /\ ~panicked
    /\ rpc[c] = "unregister"
    /\ \E o \in Orders(Conns) : SetHub("unregister", c, unregisterClient(HubState, c, o))
    /\ rpc' = [rpc EXCEPT ![c] = "close"]
    /\ UNCHANGED <<broadcast, messages, client, connOpen, hpc, rmsg, wpc, nread, written,
                   request, response, page, history, rerr, closing, room_members>>

\* HubBroadcast whose sends to the clients block: the step cannot complete
\* while a client of the room has a full queue
HubBroadcast_BlockingSend ==
    /\ ~panicked
    /\ broadcast # << >>
    /\ LET roomID == Head(broadcast).RoomID
       IN roomID \in DOMAIN rooms => \A c \in rooms[roomID] : Len(send[c]) < SendCap
    /\ broadcast' = Tail(broadcast)
    /\ \E saved \in BOOLEAN, o \in Orders(Conns) :
           LET res == handleBroadcast(HubState, messages, Head(broadcast), saved, o)
           IN /\ messages' = res.table
              /\ SetHub("broadcast", 0, res.hub)
    /\ UNCHANGED <<client, connOpen, hpc, rpc, rmsg, wpc, nread, written,
                   request, response, page, history, rerr, closing, room_members>>

\* case message := <-h.broadcast: h.handleBroadcast(message)
HubBroadcast ==
    /\ ~panicked
    /\ broadcast # << >>
    /\ broadcast' = Tail(broadcast)
    /\ \E saved \in BOOLEAN, o \in Orders(Conns) :
           LET res == handleBroadcast(HubState, messages, Head(broadcast), saved, o)
           IN /\ messages' = res.table
              /\ SetHub("broadcast", 0, res.hub)
    /\ UNCHANGED <<client, connOpen, hpc, rpc, rmsg, wpc, nread, written,
                   request, response, page, history, rerr, closing, room_members>>

\* --------------------------------------------------------------- readPump
\* ReadFrame that takes the message's type from the frame: "join" for the
\* first frame
ReadFrame_TypeFromFrame(c) ==
    /\ rpc[c] = "read"
    /\ connOpen[c]
    /\ nread < Len(Inbound)
    /\ nread' = nread + 1
    /\ rmsg' = [rmsg EXCEPT ![c] = Message(client[c].roomID, client[c].userID,
                                           client[c].username, Inbound[nread + 1],
                                           IF nread = 0 THEN "join" ELSE "message")]
    /\ rpc' = [rpc EXCEPT ![c] = "broadcast"]
    /\ UNCHANGED <<rooms, broadcast, messages, panicked, last, client, send, sendOpen,
                   connOpen, hpc, wpc,
                   processed, written,
                   request, response, page, history, rerr, closing, calls, room_members>>

\* ReadFrame whose reader reads on while a message waits for the channel and
\* submits the later message ahead of it
ReadFrame_Overtakes(c) ==
    /\ rpc[c] \in {"read", "broadcast"}
    /\ connOpen[c]
    /\ nread < Len(Inbound)
    /\ nread' = nread + 1
    /\ LET msg == Message(client[c].roomID, client[c].userID,
                          client[c].username, Inbound[nread + 1], "message")
       IN IF rpc[c] = "read"
          THEN /\ rmsg' = [rmsg EXCEPT ![c] = msg]
               /\ rpc' = [rpc EXCEPT ![c] = "broadcast"]
               /\ UNCHANGED broadcast
          ELSE /\ Len(broadcast) < BroadcastCap
               /\ broadcast' = Append(broadcast, msg)
               /\ UNCHANGED <<rmsg, rpc>>
    /\ UNCHANGED <<rooms, messages, panicked, last, client, send, sendOpen,
                   connOpen, hpc, wpc,
                   processed, written,
                   request, response, page, history, rerr, closing, calls, room_members>>

\* c.conn.ReadMessage() returned a frame; msg is built from it
ReadFrame(c) ==
    /\ rpc[c] = "read"
    /\ connOpen[c]
    /\ nread < Len(Inbound)
    /\ nread' = nread + 1
    /\ rmsg' = [rmsg EXCEPT ![c] = Message(client[c].roomID, client[c].userID,
                                           client[c].username, Inbound[nread + 1],
                                           "message")]
    /\ rpc' = [rpc EXCEPT ![c] = "broadcast"]
    /\ UNCHANGED <<rooms, broadcast, messages, panicked, last, client, send, sendOpen,
                   connOpen, hpc, wpc,
                   processed, written,
                   request, response, page, history, rerr, closing, calls, room_members>>

\* c.hub.broadcast <- msg: blocks while the channel's buffer is full
SubmitBroadcast(c) ==
    /\ rpc[c] = "broadcast"
    /\ Len(broadcast) < BroadcastCap
    /\ broadcast' = Append(broadcast, rmsg[c])
    /\ rmsg' = [rmsg EXCEPT ![c] = NoMsg]
    /\ rpc' = [rpc EXCEPT ![c] = "read"]
    /\ UNCHANGED <<rooms, messages, panicked, last, client, send, sendOpen, connOpen,
                   hpc, wpc, nread,
                   processed, written,
                   request, response, page, history, rerr, closing, calls, room_members>>

\* The errors c.conn.ReadMessage() returns: the peer closed or the connection
\* was closed by writePump, the read deadline passed, or the peer's frame
\* broke the protocol or was larger than maxMessageSize.
ReadErrors == {"close", "timeout", "bad frame"}

\* ReadError whose reader closes its client's queue itself
ReadError_ClosesQueue(c) ==
    /\ rpc[c] = "read"
    /\ rpc' = [rpc EXCEPT ![c] = "unregister"]
    /\ sendOpen' = [sendOpen EXCEPT ![c] = FALSE]
    /\ \E err \in ReadErrors :
           rerr' = IF c \in DOMAIN rerr THEN [rerr EXCEPT ![c] = err] ELSE rerr
    /\ UNCHANGED <<rooms, broadcast, messages, panicked, last, client, send,
                   connOpen, hpc, rmsg, wpc, nread,
                   processed, written,
                   request, response, page, history, closing, calls, room_members>>

\* ReadError whose reader takes its client out of the registry itself
ReadError_DeletesItself(c) ==
    /\ rpc[c] = "read"
    /\ rpc' = [rpc EXCEPT ![c] = "unregister"]
    /\ rooms' = [r \in DOMAIN rooms |-> rooms[r] \ {c}]
    /\ \E err \in ReadErrors :
           rerr' = IF c \in DOMAIN rerr THEN [rerr EXCEPT ![c] = err] ELSE rerr
    /\ UNCHANGED <<broadcast, messages, panicked, last, client, send, sendOpen,
                   connOpen, hpc, rmsg, wpc, nread,
                   processed, written,
                   request, response, page, history, closing, calls, room_members>>

\* c.conn.ReadMessage() returned an error: break, then the deferred function
ReadError(c) ==
    /\ rpc[c] = "read"
    /\ rpc' = [rpc EXCEPT ![c] = "unregister"]
    /\ \E err \in ReadErrors :
           rerr' = IF c \in DOMAIN rerr THEN [rerr EXCEPT ![c] = err] ELSE rerr
    /\ UNCHANGED <<rooms, broadcast, messages, panicked, last, client, send, sendOpen,
                   connOpen, hpc, rmsg, wpc, nread,
                   processed, written,
                   request, response, page, history, closing, calls, room_members>>

\* deferred: c.conn.Close(), after c.hub.unregister <- c was received;
\* readPump returns, and its err is gone
ReaderClose(c) ==
    /\ rpc[c] = "close"
    /\ connOpen' = [connOpen EXCEPT ![c] = FALSE]
    /\ rpc' = [rpc EXCEPT ![c] = "done"]
    /\ rerr' = IF c \in DOMAIN rerr THEN [rerr EXCEPT ![c] = ""] ELSE rerr
    /\ UNCHANGED <<rooms, broadcast, messages, panicked, last, client, send, sendOpen,
                   hpc, rmsg, wpc, nread,
                   processed, written,
                   request, response, page, history, closing, calls, room_members>>

\* -------------------------------------------------------------- writePump
\* WriteMessages whose writer returns at an error and leaves the socket open
WriteMessages_LeavesSocketOpen(c, err) ==
    /\ wpc[c] = "select"
    /\ send[c] # << >>
    /\ send' = [send EXCEPT ![c] = IF err = "NextWriter" THEN Tail(@) ELSE << >>]
    /\ wpc' = [wpc EXCEPT ![c] = IF err = "" THEN "select" ELSE "done"]
    /\ \E k \in 0..Len(send[c]) :
           /\ err = "" => k = Len(send[c])
           /\ err = "NextWriter" => k = 0
           /\ written' = IF c \in DOMAIN written /\ k > 0
                         THEN [written EXCEPT ![c] = Append(@, SubSeq(send[c], 1, k))]
                         ELSE written
    /\ UNCHANGED <<rooms, broadcast, messages, panicked, last, client, sendOpen,
                   connOpen, hpc, rpc, rmsg, nread, processed,
                   request, response, page, history, rerr, closing, calls, room_members>>

\* WriteMessages that receives once more from a queue that was closed while
\* it drained it and writes the empty message it gets
WriteMessages_DrainsClosedQueue(c, err) ==
    /\ wpc[c] = "select"
    /\ send[c] # << >>
    /\ send' = [send EXCEPT ![c] = IF err = "NextWriter" THEN Tail(@) ELSE << >>]
    /\ wpc' = [wpc EXCEPT ![c] = IF err = "" THEN "select" ELSE "done"]
    /\ connOpen' = [connOpen EXCEPT ![c] = IF err = "" THEN @ ELSE FALSE]
    /\ LET frame == IF sendOpen[c] THEN send[c] ELSE Append(send[c], << >>) IN
       \E k \in 0..Len(frame) :
           /\ err = "" => k = Len(frame)
           /\ err = "NextWriter" => k = 0
           /\ written' = IF c \in DOMAIN written /\ k > 0
                         THEN [written EXCEPT ![c] = Append(@, SubSeq(frame, 1, k))]
                         ELSE written
    /\ UNCHANGED <<rooms, broadcast, messages, panicked, last, client, sendOpen,
                   hpc, rpc, rmsg, nread, processed,
                   request, response, page, history, rerr, closing, calls, room_members>>

\* case message, ok := <-c.send with ok.  err = "NextWriter": NextWriter
\* returned an error and the writer returns with only that message taken.
\* Otherwise the message and the n = len(c.send) messages queued behind it go
\* into one frame; err = "Close": w.Close() returned an error and the writer
\* returns.  A returning writer closes the connection.  What reached the
\* socket is recorded for a traced connection: the whole frame when the write
\* succeeded, nothing when NextWriter failed, and any prefix of the frame when
\* the flush in w.Close() failed.
WriteMessages(c, err) ==
    /\ wpc[c] = "select"
    /\ send[c] # << >>
    /\ send' = [send EXCEPT ![c] = IF err = "NextWriter" THEN Tail(@) ELSE << >>]
    /\ wpc' = [wpc EXCEPT ![c] = IF err = "" THEN "select" ELSE "done"]
    /\ connOpen' = [connOpen EXCEPT ![c] = IF err = "" THEN @ ELSE FALSE]
    /\ \E k \in 0..Len(send[c]) :
           /\ err = "" => k = Len(send[c])
           /\ err = "NextWriter" => k = 0
           /\ written' = IF c \in DOMAIN written /\ k > 0
                         THEN [written EXCEPT ![c] = Append(@, SubSeq(send[c], 1, k))]
                         ELSE written
    /\ UNCHANGED <<rooms, broadcast, messages, panicked, last, client, sendOpen,
                   hpc, rpc, rmsg, nread, processed,
                   request, response, page, history, rerr, closing, calls, room_members>>

\* WriteClose that does not return when it sees the closed queue
WriteClose_Ignored(c) ==
    /\ wpc[c] = "select"
    /\ send[c] = << >>
    /\ ~sendOpen[c]
    /\ UNCHANGED vars

\* case message, ok := <-c.send with !ok: the close frame is written and the
\* writer returns (conn.Close()).  WriteMessage fails on a socket that the
\* reader has closed and may fail on an open one; its error is dropped.
WriteClose(c) ==
    /\ wpc[c] = "select"
    /\ send[c] = << >>
    /\ ~sendOpen[c]
    /\ wpc' = [wpc EXCEPT ![c] = "done"]
    /\ connOpen' = [connOpen EXCEPT ![c] = FALSE]
    /\ \E sent \in {"sent", "failed"} :
           /\ ~connOpen[c] => sent = "failed"
           /\ closing' = IF c \in DOMAIN closing THEN [closing EXCEPT ![c] = sent]
                         ELSE closing
    /\ UNCHANGED <<rooms, broadcast, messages, panicked, last, client, send, sendOpen,
                   hpc, rpc, rmsg, nread,
                   processed, written,
                   request, response, page, history, rerr, calls, room_members>>

\* case <-ticker.C: a ping is written; failed: WriteMessage returned an error
\* and the writer returns (conn.Close())
Ping(c, failed) ==
    /\ wpc[c] = "select"
    /\ wpc' = [wpc EXCEPT ![c] = IF failed THEN "done" ELSE "select"]
    /\ connOpen' = [connOpen EXCEPT ![c] = IF failed THEN FALSE ELSE @]
    /\ UNCHANGED <<rooms, broadcast, messages, panicked, last, client, send, sendOpen,
                   hpc, rpc, rmsg, nread,
                   processed, written,
                   request, response, page, history, rerr, closing, calls, room_members>>

\* ------------------------------------------------------------------- Next
Next ==
    \/ \E c \in Conns : websocketHandler(c)
    \/ \E c \in Conns : StartPumps(c)
    \/ \E c \in Conns : HubRegister(c)
    \/ \E c \in Conns : HubUnregister(c)
    \/ HubBroadcast
    \/ \E c \in Conns : ReadFrame(c)
    \/ \E c \in Conns : SubmitBroadcast(c)
    \/ \E c \in Conns : ReadError(c)
    \/ \E c \in Conns : ReaderClose(c)
    \/ \E c \in Conns, err \in {"", "NextWriter", "Close"} : WriteMessages(c, err)
    \/ \E c \in Conns : WriteClose(c)
    \/ \E c \in Conns, failed \in BOOLEAN : Ping(c, failed)

Spec == Init /\ [][Next]_vars

\* The same program with histories kept for one room and one connection
\* (connections are interchangeable, and the first is a member of room 7 only).
InitTraced ==
    /\ InitProgram
    /\ InitPage
    /\ processed = [r \in TracedRooms |-> << >>]
    /\ written = [c \in TracedConns |-> << >>]
    /\ rerr = << >>
    /\ closing = << >>
    /\ calls = [on |-> FALSE, seq |-> << >>]

SpecTraced == InitTraced /\ [][Next]_vars

\* The same program with the err of one readPump kept.
InitFrames ==
    /\ InitProgram
    /\ InitPage
    /\ processed = << >>
    /\ written = << >>
    /\ rerr = [c \in TracedConns |-> ""]
    /\ closing = << >>
    /\ calls = [on |-> FALSE, seq |-> << >>]

SpecFrames == InitFrames /\ [][Next]_vars

\* The same program with the calls of the hub's steps kept.
InitCalls ==
    /\ InitProgram
    /\ InitPage
    /\ processed = << >>
    /\ written = << >>
    /\ rerr = << >>
    /\ closing = << >>
    /\ calls = [on |-> TRUE, seq |-> << >>]

SpecCalls == InitCalls /\ [][Next]_vars

\* The same program with the broadcasts of one room kept.
InitProcessed ==
    /\ InitProgram
    /\ InitPage
    /\ processed = [r \in TracedRooms |-> << >>]
    /\ written = << >>
    /\ rerr = << >>
    /\ closing = << >>
    /\ calls = [on |-> FALSE, seq |-> << >>]

SpecProcessed == InitProcessed /\ [][Next]_vars

\* The same program when one connection is made (the other request was
\* rejected), with the close frame of its writer kept.
InitLive ==
    /\ InitConns(TracedConns)
    /\ messages = << >>
    /\ InitPage
    /\ processed = << >>
    /\ written = [c \in TracedConns |-> << >>]
    /\ rerr = << >>
    /\ closing = [c \in TracedConns |-> ""]
    /\ calls = [on |-> FALSE, seq |-> << >>]

\* The goroutines are scheduled.  The handler goes on to start the pumps
\* once the hub has taken the client.  A select with a case that is ready
\* takes it in the end: the hub takes an Unregister and a message that wait
\* for it, the writer takes a queued message and sees a queue that is
\* closed.  A reader hands over its message when the channel has room, and
\* its ReadMessage on a socket that was closed returns an error.
Scheduling ==
    /\ WF_vars(HubBroadcast)
    /\ \A c \in Conns :
           /\ WF_vars(StartPumps(c))
           /\ WF_vars(HubUnregister(c))
           /\ WF_vars(SubmitBroadcast(c))
           /\ WF_vars(~connOpen[c] /\ ReadError(c))
           /\ WF_vars(ReaderClose(c))
           /\ WF_vars(\E err \in {"", "NextWriter", "Close"} : WriteMessages(c, err))
           /\ WF_vars(WriteClose(c))

SpecLive == InitLive /\ [][Next]_vars /\ Scheduling

\* ------------------------------------------------------- leaveRoomHandler
\* store.RoomMembers.Leave: DELETE FROM room_members WHERE room_id = $1 AND
\* user_id = $2
Leave(table, roomID, userID) == table \ {<<roomID, userID>>}

\* the leave requests of the user of connection c, each with the outcome of
\* the DELETE, which is made once the caller is authenticated and the room id
\* parsed
LeaveRequests(c) ==
    {req \in [header : Headers(c), roomID : UrlParams, leave : {"-", "ok", "error"}] :
        LET a == AuthMiddleware(req.header)
            id == extractIDFromURL(req.roomID)
        IN req.leave = "-" <=> ~(a.status = 0 /\ ~id.err)}

\* POST /v1/rooms/{roomID}/leave through AuthMiddleware: 401, 400 and 500
\* leave the table as it is; otherwise the caller's row of the room is
\* deleted.  The handler does not call the hub.
leaveRoomHandler(req) ==
    /\ LET a == AuthMiddleware(req.header)
           id == extractIDFromURL(req.roomID)
       IN room_members' = IF a.status = 0 /\ ~id.err /\ req.leave = "ok"
                          THEN Leave(room_members, id.id, a.userID)
                          ELSE room_members
    /\ UNCHANGED <<rooms, broadcast, messages, panicked, last, client, send, sendOpen,
                   connOpen, hpc, rpc, rmsg, wpc, nread, request, response, processed,
                   written, rerr, closing, calls, page, history>>

\* The program of one connection, with the leave requests of the users.
NextLeave ==
    \/ Next
    \/ \E c \in Conns : \E req \in LeaveRequests(c) : leaveRoomHandler(req)

InitLeave ==
    /\ InitConns(TracedConns)
    /\ messages = << >>
    /\ InitPage
    /\ processed = << >>
    /\ written = << >>
    /\ rerr = << >>
    /\ closing = << >>
    /\ calls = [on |-> FALSE, seq |-> << >>]

SpecLeave == InitLeave /\ [][NextLeave]_vars

\* ------------------------------------------------- the page: WebSocketClient
\* connect(): this.ws = new WebSocket(wsURL), with the four handlers set
connect(k) ==
    /\ sockets[k] < MaxSockets
    /\ ws' = [ws EXCEPT ![k] = "socket"]
    /\ readyState' = [readyState EXCEPT ![k] = "CONNECTING"]
    /\ sockets' = [sockets EXCEPT ![k] = @ + 1]

\* disconnect(): if (this.ws) { this.ws.close(); this.ws = null }.  close()
\* starts the closing handshake of a socket that is connecting or open, and
\* does nothing to a socket that is closing or closed.
disconnect(k) ==
    /\ ws' = [ws EXCEPT ![k] = "null"]
    /\ readyState' = [readyState EXCEPT ![k] =
                          IF ws[k] = "socket" /\ @ \in {"CONNECTING", "OPEN"}
                          THEN "CLOSING" ELSE @]

\* ChatApp.joinRoom up to its awaits: the present client is disconnected
joinRoom ==
    /\ ~joining
    /\ wsClient < Cardinality(JSClients)
    /\ joining' = TRUE
    /\ IF wsClient # 0 THEN disconnect(wsClient) ELSE UNCHANGED <<ws, readyState>>
    /\ UNCHANGED <<wsClient, reconnectAttempts, timers, sockets, server, history>>

\* ChatApp.connectWebSocket, at the end of joinRoom: a new WebSocketClient
\* is constructed and connect() is called
connectWebSocket ==
    /\ joining
    /\ joining' = FALSE
    /\ wsClient' = wsClient + 1
    /\ connect(wsClient + 1)
    /\ UNCHANGED <<reconnectAttempts, timers, server, history>>

\* onopen that leaves the counter as it is
onopen_NoReset(k) ==
    /\ readyState[k] = "CONNECTING"
    /\ readyState' = [readyState EXCEPT ![k] = "OPEN"]
    /\ UNCHANGED <<wsClient, joining, ws, reconnectAttempts, timers, sockets, server, history>>

\* ws.onopen: the connection is established
onopen(k) ==
    /\ readyState[k] = "CONNECTING"
    /\ readyState' = [readyState EXCEPT ![k] = "OPEN"]
    /\ reconnectAttempts' = [reconnectAttempts EXCEPT ![k] = 0]
    /\ UNCHANGED <<wsClient, joining, ws, timers, sockets, server, history>>

\* onclose that also retries when the counter has reached the maximum
onclose_RetriesAtMax(k) ==
    /\ readyState[k] \in {"CONNECTING", "OPEN", "CLOSING"}
    /\ readyState' = [readyState EXCEPT ![k] = "CLOSED"]
    /\ timers' = [timers EXCEPT ![k] =
                      IF reconnectAttempts[k] <= maxReconnectAttempts THEN @ + 1 ELSE @]
    /\ UNCHANGED <<wsClient, joining, ws, reconnectAttempts, sockets, server, history>>

\* ws.onclose: the socket is closed, because the connection could not be
\* made or was lost, or because close() was called; the reconnect is
\* scheduled unless the counter has reached the maximum
onclose(k) ==
    /\ readyState[k] \in {"CONNECTING", "OPEN", "CLOSING"}
    /\ readyState' = [readyState EXCEPT ![k] = "CLOSED"]
    /\ timers' = [timers EXCEPT ![k] =
                      IF reconnectAttempts[k] < maxReconnectAttempts THEN @ + 1 ELSE @]
    /\ UNCHANGED <<wsClient, joining, ws, reconnectAttempts, sockets, server, history>>

\* the setTimeout callback: this.reconnectAttempts++; this.connect()
reconnect(k) ==
    /\ timers[k] > 0
    /\ timers' = [timers EXCEPT ![k] = @ - 1]
    /\ reconnectAttempts' = [reconnectAttempts EXCEPT ![k] = @ + 1]
    /\ connect(k)
    /\ UNCHANGED <<wsClient, joining, server, history>>

NextPage ==
    \/ joinRoom
    \/ connectWebSocket
    \/ \E k \in JSClients : onopen(k)
    \/ \E k \in JSClients : onclose(k)
    \/ \E k \in JSClients : reconnect(k)

SpecPage == Init /\ [][NextPage]_vars

\* ------------------------------------------------- history: store.Messages
\* The times NOW() gives the rows; two rows may get the same time, and a
\* later row an earlier time when the clock is set back.
Clock == {1, 2}

\* The messages table with its created_at column, which the database sets
\* to NOW() at the INSERT.  (The hub never reads the column, and the table of
\* Spec does not keep it.)
Stamp(row, now) ==
    [ID |-> row.ID, RoomID |-> row.RoomID, UserID |-> row.UserID,
     Content |-> row.Content, CreatedAt |-> now]

\* Messages.Create at the database time now
CreateAt(table, dbMessage, now) ==
    LET created == Create(table, dbMessage)
    IN [created EXCEPT ![Len(created)] = Stamp(@, now)]

\* the tables of at most n rows that the members' messages, persisted one
\* after the other, may have made
RECURSIVE Tables(_)
Tables(n) ==
    IF n = 0 THEN {<< >>}
    ELSE LET T == Tables(n - 1)
         IN T \cup {CreateAt(table, [RoomID |-> m[1], UserID |-> m[2],
                                     Content |-> Inbound[1]], now) :
                        table \in {t \in T : Len(t) = n - 1},
                        m \in RoomMembers, now \in Clock}

\* the rows of the table WHERE m.room_id = $1 (every row has its user)
Selected(table, roomID) == {i \in DOMAIN table : table[i].RoomID = roomID}

\* the orders ORDER BY m.created_at DESC may give the rows S: rows of equal
\* created_at come in any order
Descending(table, S) ==
    {q \in Orders(S) :
        \A i, j \in DOMAIN q : i < j => table[q[i]].CreatedAt >= table[q[j]].CreatedAt}

\* rows.Scan: the row with u.username joined
Scan(row) ==
    [ID |-> row.ID, RoomID |-> row.RoomID, UserID |-> row.UserID,
     Content |-> row.Content, Username |-> Usernames[row.UserID],
     CreatedAt |-> row.CreatedAt]

\* GetRoomMessages that returns the rows as the query gives them
GetRoomMessages_NotReversed(table, roomID, limit, q) ==
    LET n == IF limit < Len(q) THEN limit ELSE Len(q)
    IN [i \in 1..n |-> Scan(table[q[i]])]

\* func (s *MessageStore) GetRoomMessages(ctx, roomID, limit); q is the
\* order in which the database gives the selected rows: the first limit
\* rows are scanned and the slice is reversed
GetRoomMessages(table, roomID, limit, q) ==
    LET n == IF limit < Len(q) THEN limit ELSE Len(q)
        messages_ == [i \in 1..n |-> Scan(table[q[i]])]
    IN [i \in 1..n |-> messages_[n + 1 - i]]

\* a call of Messages.GetRoomMessages with any limit
CallGetRoomMessages(roomID, limit) ==
    /\ \E q \in Descending(messages, Selected(messages, roomID)) :
           history' = [op |-> "GetRoomMessages", roomID |-> roomID, limit |-> limit,
                       status |-> 0,
                       rows |-> GetRoomMessages(messages, roomID, limit, q)]
    /\ UNCHANGED <<server, page>>

\* The requests GET /v1/rooms/{roomID}/messages may get from the user of
\* connection c, with
\* the outcomes of the store calls the handler makes for them ("-": the
\* call is not made).
HistoryRequests(c) ==
    {r \in [header : Headers(c), roomID : UrlParams,
            members : {"-", "ok", "error"}, messages : {"-", "ok", "error"}] :
        LET a == AuthMiddleware(r.header)
            id == extractIDFromURL(r.roomID)
            asked == a.status = 0 /\ ~id.err
        IN /\ (r.members = "-") = ~asked
           /\ (r.messages = "-") =
                  ~(asked /\ r.members = "ok" /\ IsUserInRoom(id.id, a.userID))}

\* func (app *application) getRoomMessagesHandler(w, r), behind
\* AuthMiddleware
getRoomMessagesHandler(req) ==
    LET a == AuthMiddleware(req.header)
        id == extractIDFromURL(req.roomID)
        answer(status, rows) ==
            history' = [op |-> "getRoomMessagesHandler",
                        roomID |-> IF id.err THEN 0 ELSE id.id,
                        limit |-> HistoryLimit, status |-> status, rows |-> rows]
    IN /\ IF a.status # 0 THEN answer(a.status, << >>)
          ELSE IF id.err THEN answer(400, << >>)
          ELSE IF req.members = "error" THEN answer(500, << >>)
          ELSE IF ~IsUserInRoom(id.id, a.userID) THEN answer(403, << >>)
          ELSE IF req.messages = "error" THEN answer(500, << >>)
          ELSE \E q \in Descending(messages, Selected(messages, id.id)) :
                   answer(200, GetRoomMessages(messages, id.id, HistoryLimit, q))
       /\ UNCHANGED <<server, page>>

NextHistory ==
    \/ \E roomID \in RoomIDs, limit \in 0..(MaxRows + 1) :
           CallGetRoomMessages(roomID, limit)
    \/ \E c \in Conns : \E req \in HistoryRequests(c) :
           getRoomMessagesHandler(req)

\* the table holds any rows when the history is asked for
InitHistory ==
    /\ InitHub
    /\ messages \in Tables(MaxRows)
    /\ InitPage
    /\ processed = << >>
    /\ written = << >>
    /\ rerr = << >>
    /\ closing = << >>
    /\ calls = [on |-> FALSE, seq |-> << >>]

SpecHistory == InitHistory /\ [][NextHistory]_vars

\* =================================================================== claims
Last(s) == s[Len(s)]

\* the value of key in a marshalled JSON object
Field(frame, key) ==
    LET i == CHOOSE i \in DOMAIN frame : frame[i][1] = key IN frame[i][2]

\* the connections registered to room r, before and after a step
Members(r) == IF r \in DOMAIN rooms THEN rooms[r] ELSE {}
MembersNext(r) == IF r \in DOMAIN rooms' THEN rooms'[r] ELSE {}

RoomOf(c) == client[c].roomID

\* frame f is a notification of the given type that carries c's identity
NotifiesOf(f, c, type) ==
    /\ Field(f, "type") = type
    /\ Field(f, "room_id") = client[c].roomID
    /\ Field(f, "user_id") = client[c].userID
    /\ Field(f, "username") = client[c].username

\* frame f carries message m
FrameOf(f, m) ==
    /\ Field(f, "type") = m.Type
    /\ Field(f, "room_id") = m.RoomID
    /\ Field(f, "user_id") = m.UserID
    /\ Field(f, "username") = m.Username
    /\ Field(f, "content") = m.Content

\* The hub's steps, told by the positions of the goroutines they serve.
RegisterStep(c) == hpc[c] = "register" /\ hpc'[c] = "pumps"
UnregisterStep(c) == rpc[c] = "unregister" /\ rpc'[c] = "close"
BroadcastStep == broadcast # << >> /\ broadcast' = Tail(broadcast)

\* the connections the step's message is offered to
Offered ==
    IF \E c \in Conns : RegisterStep(c)
    THEN LET c == CHOOSE c \in Conns : RegisterStep(c) IN Members(RoomOf(c)) \cup {c}
    ELSE IF \E c \in Conns : UnregisterStep(c) /\ c \in Members(RoomOf(c))
    THEN LET c == CHOOSE c \in Conns : UnregisterStep(c) IN Members(RoomOf(c)) \ {c}
    ELSE IF BroadcastStep THEN Members(Head(broadcast).RoomID)
    ELSE {}

Logged(event) == \E i \in DOMAIN last.log : last.log[i].event = event

\* C1: a room id is a key of the registry if and only if at least one
\* connection is registered to that room; the registry never holds a room
\* whose set of connections is empty.
C1_RegistryIffRegistered ==
    \A r \in RoomIDs : (r \in DOMAIN rooms) <=> (\E c \in Conns : c \in Members(r))

\* C2: when the hub processes Register(c), c is added to the set of its own
\* room (the entry is created if absent) and a join message carrying c's room
\* id, user id and display name is enqueued to every connection registered in
\* that room whose queue is not full, c itself included; Register cannot fail.
C2_RegisterJoins ==
    [][\A c \in Conns : RegisterStep(c) =>
          LET r == RoomOf(c) IN
          /\ r \in DOMAIN rooms'
          /\ MembersNext(r) = {c} \cup {d \in Members(r) : Len(send[d]) < SendCap}
          /\ Len(send'[c]) = Len(send[c]) + 1
          /\ NotifiesOf(Last(send'[c]), c, "join")
          /\ sendOpen'[c]
          /\ \A d \in Members(r) \ {c} :
                 Len(send[d]) < SendCap => send'[d] = Append(send[d], Last(send'[c]))
          /\ ~panicked'
      ]_vars

\* a connection has just been registered to a room that had a member, and
\* both have its join message at the end of their queues
C2_Witness ==
    \E c \in Conns :
        /\ last.op = "register" /\ last.client = c /\ hpc[c] = "pumps"
        /\ send[c] # << >> /\ NotifiesOf(Last(send[c]), c, "join")
        /\ \E d \in Members(RoomOf(c)) \ {c} :
               send[d] # << >> /\ Last(send[d]) = Last(send[c])

\* C3: when the hub processes Unregister(c) for a registered c, c is removed
\* from its room's set, c's queue is closed, the room entry is deleted if the
\* set became empty, and a leave message carrying c's identity is enqueued to
\* every connection still registered in that room, and not to c.
C3_UnregisterLeaves ==
    [][\A c \in Conns : (UnregisterStep(c) /\ c \in Members(RoomOf(c))) =>
          LET r == RoomOf(c)
              rest == Members(r) \ {c}
          IN
          /\ c \notin MembersNext(r)
          /\ sendOpen[c] /\ ~sendOpen'[c]
          /\ send'[c] = send[c]
          /\ rest = {} => r \notin DOMAIN rooms'
          /\ \A d \in rest : Len(send[d]) < SendCap =>
                 /\ d \in MembersNext(r)
                 /\ Len(send'[d]) = Len(send[d]) + 1
                 /\ SubSeq(send'[d], 1, Len(send[d])) = send[d]
                 /\ NotifiesOf(Last(send'[d]), c, "leave")
          /\ \A d \in MembersNext(r) :
                 d \in rest /\ NotifiesOf(Last(send'[d]), c, "leave")
          /\ ~panicked'
      ]_vars

\* a registered connection has just been unregistered and a connection that
\* stays in its room has its leave message at the end of its queue
C3_Witness ==
    \E c \in Conns :
        /\ last.op = "unregister" /\ last.client = c /\ Logged("unregistered")
        /\ ~sendOpen[c]
        /\ \E d \in Members(RoomOf(c)) :
               send[d] # << >> /\ NotifiesOf(Last(send[d]), c, "leave")

\* C4: Unregister(c) for a connection that is not in the registry leaves the
\* registry and every queue unchanged, closes no queue a second time and
\* broadcasts no leave message.
C4_UnregisterAbsent ==
    [][\A c \in Conns : (UnregisterStep(c) /\ c \notin Members(RoomOf(c))) =>
          /\ UNCHANGED <<rooms, send, sendOpen, panicked, messages, broadcast>>
          /\ last'.log = << >>
      ]_vars

\* the hub has just processed the Unregister of a connection that had been
\* evicted before: its queue was closed already and nothing was logged
C4_Witness ==
    \E c \in Conns :
        /\ last.op = "unregister" /\ last.client = c /\ last.log = << >>
        /\ rpc[c] = "close" /\ ~sendOpen[c] /\ ~panicked

\* the connections whose Register was processed and whose queue is still open
RegisteredTo(r) ==
    {c \in Conns : RoomOf(c) = r /\ hpc[c] \in {"pumps", "done"} /\ sendOpen[c]}

\* C5: GetRoomClientCount(R) is the number of connections registered to R;
\* unregistering the last connection of a room removes the room, and the
\* count is then 0; a later Register to that room id recreates the entry with
\* exactly that one connection.
C5_ClientCount ==
    /\ [](\A r \in RoomIDs : GetRoomClientCount(HubState, r) = Cardinality(RegisteredTo(r)))
    /\ [][\A c \in Conns :
            LET r == RoomOf(c) IN
            /\ (UnregisterStep(c) /\ Members(r) = {c}) =>
                   /\ r \notin DOMAIN rooms'
                   /\ GetRoomClientCount(HubState', r) = 0
            /\ (RegisterStep(c) /\ r \notin DOMAIN rooms) =>
                   /\ r \in DOMAIN rooms' /\ rooms'[r] = {c}
                   /\ GetRoomClientCount(HubState', r) = 1
         ]_vars

\* the last connection of a room has just been unregistered: the room is
\* gone from the registry and its count is 0
C5_Witness ==
    \E c \in Conns :
        /\ last.op = "unregister" /\ last.client = c /\ Logged("room removed")
        /\ RoomOf(c) \notin DOMAIN rooms
        /\ GetRoomClientCount(HubState, RoomOf(c)) = 0

\* C6: when the hub processes Broadcast(m), m is offered to every connection
\* registered in room m.room at that moment, the sender's included; each of
\* them whose queue is not full has m appended to its queue.
C6_BroadcastFansOut ==
    [][BroadcastStep =>
          LET m == Head(broadcast)
              r == m.RoomID
          IN \A d \in Conns :
                 IF d \in Members(r)
                 THEN IF Len(send[d]) < SendCap
                      THEN /\ Len(send'[d]) = Len(send[d]) + 1
                           /\ SubSeq(send'[d], 1, Len(send[d])) = send[d]
                           /\ FrameOf(Last(send'[d]), m)
                           /\ d \in MembersNext(r)
                      ELSE /\ d \notin MembersNext(r)
                           /\ ~sendOpen'[d]
                 ELSE send'[d] = send[d]
      ]_vars

\* a chat message has just been broadcast and its sender and another
\* connection of the room both have it at the end of their queues
C6_Witness ==
    /\ last.op = "broadcast"
    /\ \E c \in Conns :
          /\ c \in Members(RoomOf(c))
          /\ send[c] # << >>
          /\ Field(Last(send[c]), "type") = "message"
          /\ Field(Last(send[c]), "user_id") = client[c].userID
          /\ \E d \in Members(RoomOf(c)) \ {c} :
                 send[d] # << >> /\ Last(send[d]) = Last(send[c])

\* C7: broadcasting to a room without registered connections is a no-op on
\* the hub's state: the registry and every queue are unchanged and nothing
\* fails; the only side effect allowed is the persistence write of a chat
\* message.
C7_EmptyRoomNoOp ==
    [][(BroadcastStep /\ Members(Head(broadcast).RoomID) = {}) =>
          LET m == Head(broadcast) IN
          /\ UNCHANGED <<rooms, send, sendOpen, panicked>>
          /\ \/ messages' = messages
             \/ /\ m.Type = "message"
                /\ Len(messages') = Len(messages) + 1
                /\ SubSeq(messages', 1, Len(messages)) = messages
                /\ Last(messages').RoomID = m.RoomID
                /\ Last(messages').UserID = m.UserID
                /\ Last(messages').Content = m.Content
      ]_vars

\* a chat message has just been broadcast to a room with no connection: no
\* client was sent to or removed, and the message was persisted
C7_Witness ==
    /\ last.op = "broadcast"
    /\ ~Logged("removed: full buffer")
    /\ \A i \in DOMAIN last.log :
           last.log[i].event = "broadcasted" => last.log[i].count = 0
    /\ ~Logged("save failed")
    /\ messages # << >>
    /\ Members(Last(messages).RoomID) = {}

\* C8: during a broadcast a recipient is evicted exactly when its queue
\* already holds capacity-many messages at the enqueue attempt; the evicted
\* connection is removed from its room's set and its queue is closed; a
\* recipient with fewer messages is never evicted; no queue ever holds more
\* than its capacity.
C8_EvictionExactlyWhenFull ==
    [][/\ \A d \in Conns :
            LET removed == /\ d \in Members(RoomOf(d))
                           /\ d \notin MembersNext(RoomOf(d))
                           /\ ~UnregisterStep(d)
            IN /\ removed <=> (d \in Offered /\ Len(send[d]) = SendCap)
               /\ removed => sendOpen[d] /\ ~sendOpen'[d] /\ send'[d] = send[d]
               /\ (d \in Offered /\ Len(send[d]) < SendCap) =>
                      d \in MembersNext(RoomOf(d)) /\ sendOpen'[d]
       /\ \A d \in Conns : Len(send[d]) <= SendCap /\ Len(send'[d]) <= SendCap
      ]_vars

\* the hub's last step evicted a connection: its queue is full and closed and
\* it is in no room
C8_Witness ==
    \E d \in Conns :
        /\ \E i \in DOMAIN last.log :
               /\ last.log[i].event = "removed: full buffer"
               /\ last.log[i].user = client[d].userID
        /\ Len(send[d]) = SendCap
        /\ ~sendOpen[d]
        /\ d \notin Members(RoomOf(d))

\* C9: within one broadcast call, evicting connections whose queues are full
\* does not prevent delivery to the others: every other connection of the
\* room with a non-full queue has the message enqueued in that same call,
\* whatever the iteration order.
C9_EvictionDoesNotStopDelivery ==
    [][(\E e \in Offered : Len(send[e]) = SendCap) =>
          \A d \in Offered : Len(send[d]) < SendCap =>
              /\ Len(send'[d]) = Len(send[d]) + 1
              /\ SubSeq(send'[d], 1, Len(send[d])) = send[d]
              /\ d \in MembersNext(RoomOf(d))
              /\ BroadcastStep => FrameOf(Last(send'[d]), Head(broadcast))
              /\ \A d2 \in Offered : Len(send[d2]) < SendCap =>
                     Last(send'[d2]) = Last(send'[d])
      ]_vars

\* the hub's last call evicted a connection and still delivered the message
\* to a connection that remains in the room
C9_Witness ==
    /\ Logged("removed: full buffer")
    /\ \E i \in DOMAIN last.log :
           /\ last.log[i].event = "broadcasted"
           /\ last.log[i].count >= 1
           /\ \E d \in Members(last.log[i].room) : send[d] # << >>

\* C10: the hub loop never blocks on a connection: whatever the queues hold
\* and whether or not the writers drain them, the hub can take each request
\* that is waiting for it, so every goroutine that has not returned can take
\* its next step or waits for a hub that can serve it: there is no deadlock.
C10_HubNeverBlocks ==
    /\ ~panicked
    /\ \A c \in Conns :
          /\ hpc[c] = "request" => ENABLED websocketHandler(c)
          /\ hpc[c] = "register" => ENABLED HubRegister(c)
          /\ rpc[c] = "unregister" => ENABLED HubUnregister(c)
          /\ rpc[c] = "broadcast" =>
                 (ENABLED SubmitBroadcast(c)) \/ (ENABLED HubBroadcast)
          /\ rpc[c] = "read" => ENABLED ReadError(c)
          /\ rpc[c] = "close" => ENABLED ReaderClose(c)
          /\ hpc[c] = "pumps" => ENABLED StartPumps(c)
          /\ wpc[c] = "select" => \E failed \in BOOLEAN : ENABLED Ping(c, failed)
    /\ broadcast # << >> => ENABLED HubBroadcast

\* a broadcast is waiting in the hub's channel for a room in which a
\* connection has a full queue and a writer that has returned, while a reader
\* is blocked on the full channel
C10_Witness ==
    /\ Len(broadcast) = BroadcastCap
    /\ \E c \in Members(Head(broadcast).RoomID) :
           Len(send[c]) = SendCap /\ wpc[c] = "done"
    /\ \E d \in Conns : rpc[d] = "broadcast"

\* the messages of the frames fs, in the order written
RECURSIVE Flatten(_)
Flatten(fs) == IF fs = << >> THEN << >> ELSE Head(fs) \o Flatten(Tail(fs))

\* s is a subsequence of t: t with some elements left out, the order kept
RECURSIVE IsSubSeq(_, _)
IsSubSeq(s, t) ==
    IF s = << >> THEN TRUE
    ELSE IF t = << >> THEN FALSE
    ELSE IF Head(s) = Head(t) THEN IsSubSeq(Tail(s), Tail(t))
    ELSE IsSubSeq(s, Tail(t))

\* i < j: the positions of x and y in s when x comes before y
Before(s, x, y) == \E i, j \in DOMAIN s : i < j /\ s[i] = x /\ s[j] = y

\* C11: for a connection, the messages written to its socket followed by the
\* messages still in its queue are a subsequence, in the same order, of the
\* broadcasts the hub processed for its room; no two messages reach a
\* connection in the opposite order to the one in which the hub processed them.
C11_OrderPreserved ==
    \A c \in DOMAIN written :
        LET got == Flatten(written[c]) \o send[c] IN
        IF RoomOf(c) \in DOMAIN processed
        THEN /\ IsSubSeq(got, processed[RoomOf(c)])
             /\ \A i, j \in DOMAIN got :
                    i < j => ~Before(processed[RoomOf(c)], got[j], got[i])
        ELSE got = << >>

\* the traced connection was written two messages in one frame and holds a
\* third, while the hub processed a broadcast for its room that it never got
C11_Witness ==
    /\ \E i \in DOMAIN written[1] : Len(written[1][i]) >= 2
    /\ send[1] # << >>
    /\ Len(processed[7]) > Len(Flatten(written[1])) + Len(send[1])

\* the record r of the table holds the room, the user and the content of m
RecordOf(r, m) ==
    r.RoomID = m.RoomID /\ r.UserID = m.UserID /\ r.Content = m.Content

\* C12: only chat messages are persisted: a step in which the hub registers
\* or unregisters a connection (and broadcasts its join or leave message)
\* leaves the message store unchanged, as does the broadcast of a message
\* that is not of kind chat; the store changes only by one record appended
\* for the chat message the hub takes from its broadcast channel.
C12_OnlyChatPersisted ==
    [][/\ (\E c \in Conns : RegisterStep(c) \/ UnregisterStep(c)) => messages' = messages
       /\ (BroadcastStep /\ Head(broadcast).Type # "message") => messages' = messages
       /\ messages' # messages =>
              /\ BroadcastStep
              /\ Head(broadcast).Type = "message"
              /\ Len(messages') = Len(messages) + 1
              /\ SubSeq(messages', 1, Len(messages)) = messages
              /\ RecordOf(Last(messages'), Head(broadcast))
      ]_vars

\* the hub has just broadcast a leave message after it broadcast join and
\* chat messages, and the store holds chat records only
C12_Witness ==
    /\ last.op = "unregister" /\ Logged("unregistered") /\ Logged("broadcasted")
    /\ messages # << >>
    /\ \A i \in DOMAIN messages : \E k \in DOMAIN Inbound : messages[i].Content = Inbound[k]

\* the hub's step took a chat message whose Messages.Create failed or timed out
SaveFailedStep ==
    /\ BroadcastStep
    /\ \E i \in DOMAIN last'.log : last'.log[i].event = "save failed"

\* C13: a persistence failure or deadline expiry in the broadcast of a chat
\* message does not abort delivery: nothing is appended to the store, and the
\* queues and the registry become what a successful persistence leaves: every
\* connection of the room whose queue is not full has the message appended,
\* the others of the room are evicted, all other queues and rooms are
\* unchanged; the hub has not stopped and takes the requests that wait for it.
C13_SaveFailureStillDelivers ==
    /\ [][SaveFailedStep =>
            LET m == Head(broadcast)
                r == m.RoomID
            IN /\ messages' = messages
               /\ ~panicked'
               /\ \A d \in Conns :
                      IF d \in Members(r)
                      THEN IF Len(send[d]) < SendCap
                           THEN /\ send'[d] = Append(send[d], Marshal(m))
                                /\ sendOpen'[d] = sendOpen[d]
                                /\ d \in MembersNext(r)
                           ELSE /\ send'[d] = send[d]
                                /\ ~sendOpen'[d]
                                /\ d \notin MembersNext(r)
                      ELSE send'[d] = send[d] /\ sendOpen'[d] = sendOpen[d]
               /\ DOMAIN rooms' = DOMAIN rooms
               /\ \A q \in DOMAIN rooms : q # r => rooms'[q] = rooms[q]
               /\ \E o \in Orders(Conns) :
                      LET ok == handleBroadcast(HubState, messages, m, TRUE, o).hub
                      IN rooms' = ok.rooms /\ send' = ok.send /\ sendOpen' = ok.open
         ]_vars
    /\ []((last.op = "broadcast" /\ Logged("save failed")) =>
             /\ ~panicked
             /\ broadcast # << >> => ENABLED HubBroadcast
             /\ \A c \in Conns :
                    /\ hpc[c] = "register" => ENABLED HubRegister(c)
                    /\ rpc[c] = "unregister" => ENABLED HubUnregister(c))

\* the store failed for the chat message the hub has just broadcast: the
\* store is empty, the sender and another connection of the room have the
\* message at the end of their queues, and the next broadcast is waiting
C13_Witness ==
    /\ last.op = "broadcast" /\ Logged("save failed")
    /\ messages = << >>
    /\ broadcast # << >>
    /\ \E c \in Conns :
          /\ c \in Members(RoomOf(c))
          /\ send[c] # << >>
          /\ Field(Last(send[c]), "type") = "message"
          /\ Field(Last(send[c]), "user_id") = client[c].userID
          /\ \E d \in Members(RoomOf(c)) \ {c} :
                 send[d] # << >> /\ Last(send[d]) = Last(send[c])

\* the steps of a reader: a frame is read, the message is handed to the hub
ReadStep(c) == rpc[c] = "read" /\ rpc'[c] = "broadcast"
SubmitStep(c) == rpc[c] = "broadcast" /\ rpc'[c] = "read"

\* the hub's step took a chat message and Messages.Create succeeded
SavedStep ==
    /\ BroadcastStep
    /\ Head(broadcast).Type = "message"
    /\ ~\E i \in DOMAIN last'.log : last'.log[i].event = "save failed"

\* C14: for every chat message the hub processes whose persistence call
\* succeeds, exactly one record is appended to the message store; its room
\* id and user id are those of the sending connection and its content is
\* that of the inbound frame: the reader builds the message from the frame
\* and its own connection, hands that message to the hub unchanged, and the
\* hub stores its room id, user id and content.
C14_ChatRecordMatchesFrame ==
    [][/\ \A c \in Conns : ReadStep(c) =>
              /\ nread' = nread + 1
              /\ rmsg'[c].Content = Inbound[nread']
              /\ rmsg'[c].RoomID = client[c].roomID
              /\ rmsg'[c].UserID = client[c].userID
              /\ rmsg'[c].Type = "message"
       /\ \A c \in Conns : SubmitStep(c) => broadcast' = Append(broadcast, rmsg[c])
       /\ SavedStep =>
              LET m == Head(broadcast) IN
              /\ Len(messages') = Len(messages) + 1
              /\ SubSeq(messages', 1, Len(messages)) = messages
              /\ RecordOf(Last(messages'), m)
              /\ \E c \in Conns :
                     /\ client[c].userID = m.UserID
                     /\ client[c].roomID = m.RoomID
                     /\ \E k \in 1..nread : m.Content = Inbound[k]
      ]_vars

\* two connections are in room 7 and one of them sent "hello": the store's
\* last record has room id 7, the sender's user id and the content "hello",
\* and both connections have the message frame with that content
C14_Witness ==
    /\ last.op = "broadcast" /\ ~Logged("save failed")
    /\ Members(7) = Conns
    /\ messages # << >>
    /\ Last(messages).RoomID = 7
    /\ Last(messages).Content = <<"hello">>
    /\ \A c \in Conns :
          /\ send[c] # << >>
          /\ Field(Last(send[c]), "type") = "message"
          /\ Field(Last(send[c]), "content") = <<"hello">>
          /\ Field(Last(send[c]), "user_id") = Last(messages).UserID

\* the credential of request q is missing or invalid: no Authorization
\* header, not the bearer scheme, or a token that is expired or not signed
\* with the server's secret
BadCredential(q) ==
    ~\E u \in DOMAIN Usernames : q.header = <<"Bearer", Token(u, "ok")>>

\* the user the credential of request q belongs to
Caller(q) == q.header[2].user

\* the request q of an authenticated caller names a room the store answered
\* the caller not to be a member of
NotAMember(q) ==
    /\ ~BadCredential(q)
    /\ q.members = "ok"
    /\ \E r \in RoomIDs : q.roomID = ToString(r) /\ <<r, Caller(q)>> \notin RoomMembers

\* no connection object exists for c and the hub does not know c
NoConnection(c) ==
    /\ client[c] = NoClient
    /\ ~connOpen[c]
    /\ send[c] = << >> /\ sendOpen[c]
    /\ rpc[c] = "none" /\ wpc[c] = "none"
    /\ \A r \in DOMAIN rooms : c \notin rooms[r]

\* the handler answers the request of c in this step
HandlerStep(c) == hpc[c] = "request" /\ hpc'[c] # "request"

\* C15: an upgrade request with a missing or invalid credential is answered
\* 401 and the request of an authenticated caller who is not a member of the
\* room is answered 403; in both cases no connection object is created, no
\* Register is sent, then or later, and the step leaves the hub's state
\* unchanged.  A connection reaches the hub's register channel, and the
\* registry, only with a valid credential of a member of its room.
C15_AuthorizationGate ==
    /\ [](\A c \in Conns :
             /\ (hpc[c] # "request" /\ BadCredential(request[c])) =>
                    response[c] = 401 /\ hpc[c] = "rejected" /\ NoConnection(c)
             /\ (hpc[c] # "request" /\ NotAMember(request[c])) =>
                    response[c] = 403 /\ hpc[c] = "rejected" /\ NoConnection(c)
             /\ (hpc[c] \in {"register", "pumps", "done"} \/ ~NoConnection(c)) =>
                    /\ ~BadCredential(request[c])
                    /\ request[c].members = "ok"
                    /\ <<client[c].roomID, Caller(request[c])>> \in RoomMembers
                    /\ client[c].userID = Caller(request[c])
                    /\ request[c].roomID = ToString(client[c].roomID)
                    /\ response[c] = 101)
    /\ [][\A c \in Conns :
            /\ (HandlerStep(c) /\ response'[c] # 101) =>
                   /\ hpc'[c] = "rejected"
                   /\ UNCHANGED <<rooms, broadcast, messages, panicked, last, client,
                                  send, sendOpen, connOpen, rpc, wpc>>
            /\ hpc[c] = "rejected" => hpc'[c] = "rejected"
            /\ RegisterStep(c) => response[c] = 101
         ]_vars

\* the first connection's user, who is a member of room 7 only, asked for
\* room 8 with a valid token and was answered 403, and the second was
\* answered 401 for its expired token: neither has a connection, and the
\* registry is empty
C15_Witness ==
    /\ hpc[1] = "rejected" /\ response[1] = 403
    /\ request[1].roomID = "8" /\ ~BadCredential(request[1])
    /\ hpc[2] = "rejected" /\ response[2] = 401
    /\ request[2].header = <<"Bearer", Token(2, "expired")>>
    /\ NoConnection(1) /\ NoConnection(2)
    /\ DOMAIN rooms = {}

\* the steps of a WebSocketClient: a reconnect attempt is started, a socket
\* is opened, a socket is closed
RetryStep(k) == sockets[k] > 0 /\ sockets'[k] = sockets[k] + 1
OpenStep(k) == readyState[k] = "CONNECTING" /\ readyState'[k] = "OPEN"
CloseStep(k) == readyState[k] # "CLOSED" /\ readyState'[k] = "CLOSED"

\* client k has used all its attempts: its last socket is closed and the
\* counter is at the maximum
Exhausted(k) ==
    readyState[k] = "CLOSED" /\ reconnectAttempts[k] = maxReconnectAttempts

\* C16: the client gives up: the attempt counter never exceeds the maximum
\* (5); when the socket of the last attempt has closed with the counter at
\* the maximum, no retry is pending and none of the client's handlers can
\* run, and it stays so; every retry raises the counter by one from a value
\* below the maximum and only a successful connection lowers it, so without
\* a success there are at most 5 retries and no endless loop.
C16_ReconnectGivesUp ==
    /\ [](\A k \in JSClients :
             /\ reconnectAttempts[k] <= maxReconnectAttempts
             /\ Exhausted(k) =>
                    /\ timers[k] = 0
                    /\ ~ENABLED reconnect(k)
                    /\ ~ENABLED onopen(k)
                    /\ ~ENABLED onclose(k))
    /\ [][\A k \in JSClients :
            /\ Exhausted(k) =>
                   /\ readyState'[k] = "CLOSED"
                   /\ reconnectAttempts'[k] = maxReconnectAttempts
                   /\ sockets'[k] = sockets[k]
            /\ RetryStep(k) =>
                   /\ reconnectAttempts[k] < maxReconnectAttempts
                   /\ reconnectAttempts'[k] = reconnectAttempts[k] + 1
            /\ (CloseStep(k) /\ reconnectAttempts[k] = maxReconnectAttempts) =>
                   timers'[k] = 0
            /\ reconnectAttempts'[k] < reconnectAttempts[k] => OpenStep(k)
         ]_vars

\* a client made its first connection and 5 reconnect attempts, none of
\* which succeeded: 6 sockets, the last closed, the counter at 5, no timer
C16_Witness ==
    \E k \in JSClients :
        /\ Exhausted(k)
        /\ sockets[k] = maxReconnectAttempts + 1
        /\ sockets[k] < MaxSockets
        /\ timers[k] = 0

\* C17: every successful connect sets the attempt counter to zero: the
\* counter is zero whenever the socket is open, so the close of a connection
\* that was established finds the counter at zero and schedules a retry with
\* the full number of attempts left.
C17_OpenResetsCounter ==
    /\ [](\A k \in JSClients :
             readyState[k] = "OPEN" => reconnectAttempts[k] = 0 /\ timers[k] = 0)
    /\ [][\A k \in JSClients :
            /\ OpenStep(k) => reconnectAttempts'[k] = 0
            /\ (readyState[k] = "OPEN" /\ CloseStep(k)) =>
                   /\ reconnectAttempts'[k] = 0
                   /\ timers'[k] = 1
         ]_vars

\* a client whose reconnect attempt succeeded has lost that connection: the
\* counter, which the attempt had raised, is zero and a retry is scheduled
C17_Witness ==
    \E k \in JSClients :
        /\ readyState[k] = "CLOSED"
        /\ sockets[k] >= 2
        /\ reconnectAttempts[k] = 0
        /\ timers[k] = 1

\* ---------------------------------------------------------------------- C18
\* the history retrieval that has returned rows: a call of GetRoomMessages,
\* or a request the handler answered with 200
Retrieved ==
    \/ history.op = "GetRoomMessages"
    \/ history.op = "getRoomMessagesHandler" /\ history.status = 200

\* the persisted records of the room asked for that the retrieval left out
LeftOut ==
    {k \in Selected(messages, history.roomID) :
        \A i \in DOMAIN history.rows : history.rows[i].ID # messages[k].ID}

\* C18: a history retrieval for a room with limit N returns N persisted
\* records of that room, or all of them when the room has fewer than N, each
\* once; no record it leaves out was created later than one it returns (they
\* are the most recently created); they come oldest first; and none is a
\* record of another room.
C18_HistoryMostRecentInOrder ==
    Retrieved =>
        LET rows == history.rows
            S == Selected(messages, history.roomID)
        IN /\ Len(rows) = IF history.limit < Cardinality(S) THEN history.limit
                           ELSE Cardinality(S)
           /\ \A i \in DOMAIN rows :
                  /\ rows[i].RoomID = history.roomID
                  /\ \E k \in S : rows[i] = Scan(messages[k])
           /\ \A i, j \in DOMAIN rows :
                  i < j => /\ rows[i].ID # rows[j].ID
                           /\ rows[i].CreatedAt <= rows[j].CreatedAt
           /\ \A k \in LeftOut : \A i \in DOMAIN rows :
                  messages[k].CreatedAt <= rows[i].CreatedAt

\* a retrieval with limit 1 from a room of two records created at different
\* times, while the other room has a record too: the later one is returned
C18_Witness ==
    /\ history.op = "GetRoomMessages"
    /\ history.limit = 1
    /\ Len(history.rows) = 1
    /\ \E k \in LeftOut : messages[k].CreatedAt < history.rows[1].CreatedAt
    /\ \E k \in DOMAIN messages : messages[k].RoomID # history.roomID

\* ---------------------------------------------------------------------- C19
\* ReadMessage of connection c got a frame that breaks the protocol or is
\* larger than maxMessageSize
BadFrameStep(c) ==
    /\ c \in DOMAIN rerr
    /\ rpc[c] = "read"
    /\ rerr[c] = ""
    /\ rerr'[c] = "bad frame"

\* C19: a malformed inbound frame is discarded individually: it is not
\* broadcast or persisted, and the connection stays registered with its read
\* loop going on to read later frames.
C19_MalformedFrameDiscarded ==
    [][\A c \in Conns :
          BadFrameStep(c) =>
              /\ broadcast' = broadcast
              /\ messages' = messages
              /\ rooms' = rooms
              /\ rpc'[c] = "read"]_vars

\* ---------------------------------------------------------------------- C20
\* the hub's step for room R has left every other room's entry and members,
\* and the queue of every connection of another room, as they were, and the
\* hub goes on
OtherRoomsUntouched(R) ==
    /\ \A q \in RoomIDs \ {R} :
           /\ (q \in DOMAIN rooms') = (q \in DOMAIN rooms)
           /\ q \in DOMAIN rooms => rooms'[q] = rooms[q]
    /\ \A d \in Conns :
           client[d] # NoClient /\ RoomOf(d) # R =>
               /\ send'[d] = send[d]
               /\ sendOpen'[d] = sendOpen[d]
    /\ ~panicked'

\* C20: a hub operation caused by a connection of room R (its Register, its
\* Unregister, its Broadcast, evictions included) leaves the registry
\* entries, the members and the outbound queues of the connections of every
\* other room unchanged, and does not stop the hub's loop.
C20_FailuresScopedToRoom ==
    [][/\ \A c \in Conns :
             RegisterStep(c) \/ UnregisterStep(c) => OtherRoomsUntouched(RoomOf(c))
       /\ BroadcastStep => OtherRoomsUntouched(Head(broadcast).RoomID)]_vars

\* the hub has evicted a connection of one room (its queue is closed while
\* its reader has not failed) while a connection registered to another room
\* keeps the messages of its queue
C20_Witness ==
    \E c, d \in Conns :
        /\ client[c] # NoClient /\ client[d] # NoClient
        /\ RoomOf(c) # RoomOf(d)
        /\ ~sendOpen[c] /\ rpc[c] \in {"read", "broadcast"}
        /\ RoomOf(d) \in DOMAIN rooms /\ d \in rooms[RoomOf(d)]
        /\ sendOpen[d] /\ send[d] # << >>
        /\ ~panicked

\* ---------------------------------------------------------------------- C21
\* the number of times x occurs in the sequence s
Count(s, x) == Cardinality({i \in DOMAIN s : s[i] = x})

\* C21: delivery is at most once: what a connection was written, together
\* with what its queue still holds, contains no message more often than the
\* hub processed it for the connection's room; a message is enqueued to the
\* connection at most once and written to its socket at most once, also
\* after an eviction or a failed write.
C21_AtMostOnce ==
    \A c \in DOMAIN written :
        LET got == Flatten(written[c]) \o send[c] IN
        \A i \in DOMAIN got :
            /\ RoomOf(c) \in DOMAIN processed
            /\ Count(got, got[i]) <= Count(processed[RoomOf(c)], got[i])

\* the traced connection's writer has stopped at a failed write after it had
\* written a frame, its queue is still open, and the hub has since processed
\* a broadcast for its room; a message of the room is lost to the connection
C21_Witness ==
    /\ wpc[1] = "done" /\ sendOpen[1]
    /\ written[1] # << >>
    /\ Len(processed[7]) > Len(Flatten(written[1])) + Len(send[1])
    /\ last.op = "broadcast"

\* ---------------------------------------------------------------------- C22
\* the hub's step evicted connection c from room r: c leaves the room's set
\* in a step that is not its own Unregister
EvictedFrom(c, r) ==
    /\ c \in Members(r)
    /\ c \notin MembersNext(r)
    /\ ~UnregisterStep(c)

\* C22: a room's entry is absent or populated: when an eviction during a
\* broadcast removes the last connection of a room, the entry is removed
\* from the registry in that same step of the hub.
C22_EvictionRemovesEmptiedRoom ==
    [][\A r \in RoomIDs :
          (\E c \in Conns : EvictedFrom(c, r)) /\ MembersNext(r) = {}
              => r \notin DOMAIN rooms']_vars

\* ---------------------------------------------------------------------- C23
\* the number of requests the hub takes in the step
Taken ==
    Cardinality({c \in Conns : RegisterStep(c)})
    + Cardinality({c \in Conns : UnregisterStep(c)})
    + (IF BroadcastStep THEN 1 ELSE 0)

\* message m was submitted by the reader of connection c
SubmittedBy(m, c) ==
    m.Type = "message" /\ m.UserID = client[c].userID /\ m.RoomID = client[c].roomID

\* C23: the hub processes Register, Unregister and Broadcast requests one
\* at a time and in the order in which they were submitted, as one ordered
\* stream over the three kinds: a step takes at most one request, and when
\* it takes the Unregister of a connection, every message that connection's
\* reader submitted (all of them earlier: the reader submits its Unregister
\* last) has been taken already.
C23_OneOrderedStream ==
    [][/\ Taken <= 1
       /\ \A c \in Conns :
              UnregisterStep(c) =>
                  \A i \in DOMAIN broadcast : ~SubmittedBy(broadcast[i], c)]_vars

\* ---------------------------------------------------------------------- C24
\* C24: the registry has a single writer: it changes only in a step in which
\* the hub takes one Register, Unregister or Broadcast request; no step of
\* the upgrade handler, of a reader or of a writer changes it.
C24_RegistrySingleWriter ==
    [][rooms' # rooms => Taken = 1]_vars

\* the hub has taken a connection's Unregister and removed it from its room
\* while the reader of a connection that is registered holds a message it has
\* yet to submit
C24_Witness ==
    /\ last.op = "unregister" /\ Logged("unregistered")
    /\ rpc[last.client] = "close"
    /\ last.client \notin Members(RoomOf(last.client))
    /\ \E d \in Conns : rpc[d] = "broadcast" /\ d \in Members(RoomOf(d))

\* ---------------------------------------------------------------------- C25
\* the chat message of connection c with the given content
ChatOf(c, content) ==
    Message(client[c].roomID, client[c].userID, client[c].username, content, "message")

\* C25: every inbound frame a reader reads is submitted to the hub as
\* exactly one message of type "message" whose room id, user id and username
\* are those of the reader's connection, whatever the frame holds; a reader
\* submits no join or leave message, and its steps change neither the
\* registry nor a queue nor the socket.
C25_ReaderWrapsEveryFrame ==
    [][\A c \in Conns :
          /\ ReadStep(c) =>
                 /\ nread' = nread + 1
                 /\ rmsg'[c] = ChatOf(c, Inbound[nread'])
                 /\ broadcast' = broadcast
          /\ SubmitStep(c) =>
                 /\ \E k \in 1..nread : rmsg[c] = ChatOf(c, Inbound[k])
                 /\ broadcast' = Append(broadcast, rmsg[c])
                 /\ rmsg'[c] = NoMsg
          /\ ReadStep(c) \/ SubmitStep(c) =>
                 /\ rooms' = rooms /\ send' = send /\ sendOpen' = sendOpen
                 /\ connOpen' = connOpen /\ written' = written
                 /\ client' = client
          /\ rpc[c] = "broadcast" => rpc'[c] \in {"broadcast", "read"}
      ]_vars

\* a registered connection's reader has read the second frame and submitted
\* it: the message in the hub's channel is the connection's chat message
\* with that frame's content
C25_Witness ==
    \E c \in Conns :
        /\ rpc[c] = "read" /\ nread = 2
        /\ c \in Members(RoomOf(c))
        /\ broadcast # << >>
        /\ Last(broadcast) = ChatOf(c, Inbound[2])

\* ---------------------------------------------------------------------- C26
\* the steps of a reader that stops: ReadMessage fails, and, once the hub
\* has taken the Unregister, the socket is closed
ReadFailStep(c) == rpc[c] = "read" /\ rpc'[c] = "unregister"
ReaderCloseStep(c) == rpc[c] = "close" /\ rpc'[c] = "done"

\* the step changes nothing of the hub's: the registry, the queues, the
\* channel, the table
HubUntouched ==
    /\ rooms' = rooms /\ send' = send /\ sendOpen' = sendOpen
    /\ broadcast' = broadcast /\ messages' = messages

\* C26: a reader that stops at a failed read submits one Unregister for its
\* own connection and, when the hub has taken it, closes the socket; it
\* does not close the outbound queue and cleans up nothing else, and it
\* submits nothing again.
C26_ReaderExit ==
    [][\A c \in Conns :
          /\ ReadFailStep(c) => HubUntouched /\ connOpen' = connOpen
          /\ (rpc[c] = "unregister" /\ rpc'[c] # rpc[c]) =>
                 /\ rpc'[c] = "close"
                 /\ last'.op = "unregister" /\ last'.client = c
                 /\ connOpen' = connOpen
          /\ (rpc[c] = "close" /\ rpc'[c] # rpc[c]) =>
                 /\ rpc'[c] = "done"
                 /\ ~connOpen'[c]
                 /\ \A d \in Conns \ {c} : connOpen'[d] = connOpen[d]
                 /\ HubUntouched
          /\ rpc[c] = "done" => rpc'[c] = "done"
          /\ rpc'[c] = "unregister" => rpc[c] \in {"read", "unregister"}
      ]_vars

\* a reader has failed, the hub has taken its Unregister and closed its
\* queue, and the reader has closed the socket, while the connection's
\* writer has yet to see the closed queue
C26_Witness ==
    \E c \in Conns :
        /\ rpc[c] = "done" /\ ~connOpen[c]
        /\ last.op = "unregister" /\ last.client = c /\ Logged("unregistered")
        /\ ~sendOpen[c]
        /\ wpc[c] = "select"

\* ---------------------------------------------------------------------- C27
\* the writer of connection c sees that its queue is closed
SeesClosedStep(c) == c \in DOMAIN closing /\ closing'[c] # closing[c]

WriterReturnStep(c) == wpc[c] = "select" /\ wpc'[c] = "done"

\* the writer of connection c has returned at a failed write: it has written
\* no close frame
WriterFailed(c) == wpc[c] = "done" /\ closing[c] = ""

\* C28: a writer that returns, at a failed write as at the closed queue,
\* closes the socket and submits nothing to the hub: its step changes
\* neither the registry nor a channel nor the reader's position; the read
\* on the closed socket then fails, and in the end the hub has taken the
\* reader's Unregister and the connection is in no room.
C28_WriteFailureUnregisters ==
    /\ \A c \in TracedConns :
           WriterFailed(c) ~> (rpc[c] \in {"close", "done"} /\ c \notin Members(RoomOf(c)))
    /\ [][\A c \in Conns :
              WriterReturnStep(c) =>
                  /\ ~connOpen'[c]
                  /\ rooms' = rooms /\ broadcast' = broadcast
                  /\ sendOpen' = sendOpen
                  /\ rpc' = rpc /\ hpc' = hpc /\ rmsg' = rmsg
                  /\ last' = last]_vars

\* the writer returned at a failed write with a message left in its queue,
\* the reader's Unregister has been taken and the room is gone
C28_Witness ==
    /\ WriterFailed(1)
    /\ send[1] # << >>
    /\ last.op = "unregister" /\ last.client = 1 /\ Logged("unregistered")
    /\ rpc[1] \in {"close", "done"}
    /\ rooms = << >>

\* C29: for a chat message the hub attempts persistence before fan-out: in
\* the hub's step for the message the first call is Messages.Create, made
\* once, and every send of the message to a connection's queue comes after
\* it has returned, whether it saved the message or failed.
C29_PersistBeforeFanOut ==
    last.op = "broadcast" =>
        /\ calls.seq # << >>
        /\ calls.seq[1].call = "Create"
        /\ \A i \in DOMAIN calls.seq :
               /\ i > 1 => calls.seq[i].call = "send"
               /\ calls.seq[i].call = "send" =>
                      \E j \in 1..(i - 1) : calls.seq[j].call = "Create"

\* Create failed and the message was then sent to both connections of the room
C29_Witness ==
    /\ last.op = "broadcast"
    /\ Logged("save failed")
    /\ Len(calls.seq) = 3
    /\ {calls.seq[i].client : i \in 2..3} = {1, 2}
    /\ \A c \in Conns : send[c] # << >> /\ Field(Last(send[c]), "type") = "message"

\* the rooms whose set holds connection c
RoomsOf(c) == {r \in DOMAIN rooms : c \in rooms[r]}

\* C30: a connection belongs to exactly one room for its whole lifetime: in
\* every reachable state it is in at most one room's set, that set is the one
\* keyed by the connection's own room id, and the room id of a constructed
\* connection never changes.
C30_OneRoomPerConnection ==
    /\ [](\A c \in Conns :
             /\ Cardinality(RoomsOf(c)) <= 1
             /\ RoomsOf(c) # {} => client[c] # NoClient /\ RoomsOf(c) = {client[c].roomID})
    /\ [][\A c \in Conns : client[c] # NoClient => client'[c] = client[c]]_vars

\* the two connections are registered to different rooms and the hub has
\* broadcast a chat message since
C30_Witness ==
    /\ RoomsOf(1) = {7}
    /\ RoomsOf(2) = {8}
    /\ last.op = "broadcast"
    /\ messages # << >>

\* the writer of connection c takes messages from its queue in the step
WriteStep(c) ==
    wpc[c] = "select" /\ send[c] # << >> /\ Len(send'[c]) < Len(send[c])

\* the messages the step takes from the queue of c, and those it writes to
\* the socket of c
Dequeued(c) == SubSeq(send[c], 1, Len(send[c]) - Len(send'[c]))
Wrote(c) == IF written'[c] = written[c] THEN << >> ELSE Last(written'[c])

\* s is the beginning of t
IsPrefix(s, t) == Len(s) <= Len(t) /\ SubSeq(t, 1, Len(s)) = s

\* C31 as stated: the messages written to the socket are exactly the
\* messages dequeued from the outbound queue, none lost, in every step of
\* the writer.
C31_WrittenIsDequeued ==
    [][\A c \in DOMAIN written : WriteStep(c) => Wrote(c) = Dequeued(c)]_vars

\* C31: the writer's batching does not change what is delivered.  The socket
\* is written by the writer's steps only; a step takes the messages from the
\* front of the queue and leaves the rest, writes them in one frame in the
\* order of the queue, and writes no empty message and no empty frame.  A
\* write that succeeds writes every message it dequeued; a write that fails
\* ends the writer and has written a beginning of what it dequeued.
C31_BatchingKeepsMessages ==
    [][\A c \in DOMAIN written :
          /\ written'[c] # written[c] =>
                 /\ WriteStep(c)
                 /\ written'[c] = Append(written[c], Wrote(c))
                 /\ Wrote(c) # << >>
                 /\ \A i \in DOMAIN Wrote(c) : Wrote(c)[i] # << >>
          /\ WriteStep(c) =>
                 /\ send[c] = Dequeued(c) \o send'[c]
                 /\ IsPrefix(Wrote(c), Dequeued(c))
                 /\ wpc'[c] = "select" => Wrote(c) = Dequeued(c) /\ send'[c] = << >>
                 /\ wpc'[c] # "select" => wpc'[c] = "done" /\ ~connOpen'[c]
      ]_vars

\* the hub closed the queue with two messages in it and the writer then
\* wrote the two in one frame
C31_Witness ==
    /\ ~sendOpen[1]
    /\ send[1] = << >>
    /\ wpc[1] = "select"
    /\ written[1] # << >>
    /\ Len(Last(written[1])) = 2
    /\ last.op = "unregister" /\ last.client = 1 /\ Logged("unregistered")

\* the marshalled JSON object has the key
HasField(frame, key) == \E i \in DOMAIN frame : frame[i][1] = key

\* C32: every message-kind frame fanned out to a room carries a created_at
\* timestamp, the one assigned when the message was persisted; join and
\* leave frames carry no persisted timestamp.
C32_MessageFramesCarryCreatedAt ==
    \A c \in Conns : \A i \in DOMAIN send[c] :
        HasField(send[c][i], "created_at") <=> Field(send[c][i], "type") = "message"

\* the hub has taken the Register of connection c
HasRegistered(c) == hpc[c] \in {"pumps", "done"}

\* C33: queue state matches registry membership: the outbound queue of a
\* connection that has been registered is closed if and only if the
\* connection is no longer in the registry; the hub never sends on a closed
\* queue and never closes a queue twice (either would panic), whatever the
\* order of the Unregister requests and the evictions of a connection.
C33_QueueClosedIffUnregistered ==
    /\ ~panicked
    /\ \A c \in Conns :
           HasRegistered(c) => (~sendOpen[c] <=> c \notin Members(RoomOf(c)))

\* connection 2 was evicted for a full queue and the hub has then taken its
\* Unregister, which found it absent and closed nothing
C33_Witness ==
    /\ last.op = "unregister" /\ last.client = 2
    /\ ~Logged("unregistered")
    /\ HasRegistered(2) /\ ~sendOpen[2] /\ Len(send[2]) = SendCap
    /\ HasRegistered(1) /\ sendOpen[1] /\ 1 \in Members(7)
    /\ ~panicked

\* connection c was registered to a traced room, is out of the registry and
\* its reader's Unregister has been taken: the hub handles c no more
Gone(c) ==
    /\ HasRegistered(c)
    /\ RoomOf(c) \in DOMAIN processed
    /\ c \notin Members(RoomOf(c))
    /\ rpc[c] \in {"close", "done"}

\* C34: a forced eviction is equivalent to a disconnect for the rest of the
\* room: whenever a connection is removed from the registry, by Unregister or
\* by backpressure eviction, a leave message naming that connection is
\* broadcast to its room.
C34_RemovalBroadcastsLeave ==
    \A c \in Conns :
        Gone(c) => \E i \in DOMAIN processed[RoomOf(c)] :
                       NotifiesOf(processed[RoomOf(c)][i], c, "leave")

\* C35: no chat message sent by a connection is persisted or fanned out
\* after that connection has been removed from the registry: the hub takes
\* the chat message of a connection from the broadcast channel only while
\* the connection is registered, before its Unregister.
C35_NoMessageAfterRemoval ==
    [][\A c \in Conns :
          (BroadcastStep /\ HasRegistered(c) /\ SubmittedBy(Head(broadcast), c))
              => c \in Members(RoomOf(c)) /\ rpc[c] \notin {"close", "done"}]_vars

\* joinRoom has called disconnect() on the WebSocketClient k
Disconnected(k) == k < wsClient \/ (k = wsClient /\ joining)

\* C36: after disconnect() was called on a WebSocketClient, as joinRoom does
\* when the user switches rooms, that client object never opens another
\* connection: an intentional disconnect does not start the reconnect
\* sequence.
C36_DisconnectIsFinal ==
    [][\A k \in JSClients :
          Disconnected(k) => sockets'[k] = sockets[k]]_vars

\* C37: the Register of a connection is processed by the hub before any
\* Broadcast that originates from it: the reader and the writer start only
\* after the hub has taken the Register, nothing is queued for a connection
\* or submitted by it before, and the Register puts the connection's own
\* join message first in its empty outbound queue.
C37_RegisterBeforeBroadcast ==
    /\ [](\A c \in Conns :
             /\ (rpc[c] # "none" \/ wpc[c] # "none") => hpc[c] = "done"
             /\ ~HasRegistered(c) =>
                    /\ send[c] = << >>
                    /\ rmsg[c] = NoMsg
                    /\ client[c] # NoClient =>
                           \A i \in DOMAIN broadcast : ~SubmittedBy(broadcast[i], c))
    /\ [][\A c \in Conns :
             /\ RegisterStep(c) =>
                    /\ send[c] = << >>
                    /\ Len(send'[c]) = 1
                    /\ NotifiesOf(send'[c][1], c, "join")
             /\ (BroadcastStep /\ client[c] # NoClient /\ SubmittedBy(Head(broadcast), c))
                    => HasRegistered(c)
          ]_vars

\* the queue of connection 1 holds its own join message followed by the
\* chat message it sent
C37_Witness ==
    /\ last.op = "broadcast"
    /\ Len(send[1]) = 2
    /\ NotifiesOf(send[1][1], 1, "join")
    /\ Field(send[1][2], "type") = "message" /\ Field(send[1][2], "user_id") = client[1].userID

\* the place of a frame's content in the order the socket delivers the frames
InboundIndex(content) == CHOOSE k \in DOMAIN Inbound : Inbound[k] = content

\* frame f is a chat message of connection c
ChatFrameOf(f, c) ==
    Field(f, "type") = "message" /\ Field(f, "user_id") = client[c].userID

Failing(c) ==
    /\ HasRegistered(c)
    /\ \/ ~connOpen[c]
       \/ rpc[c] \in {"unregister", "close", "done"}
       \/ wpc[c] = "done"
       \/ ~sendOpen[c]

\* both tasks of c have returned, c is out of the registry, its queue closed
Released(c) ==
    /\ rpc[c] = "done"
    /\ wpc[c] = "done"
    /\ c \notin Members(RoomOf(c))
    /\ ~sendOpen[c]
    /\ ~connOpen[c]

\* C39: no task leak: for every registered connection whose socket is closed
\* or fails, under fair scheduling its reader and its writer both terminate
\* in the end and the connection is then absent from the registry with its
\* queue closed; so it is for a connection evicted for a full queue.  Once
\* released, a connection stays released.
C39_NoTaskLeak ==
    /\ \A c \in TracedConns : Failing(c) ~> Released(c)
    /\ \A c \in TracedConns : [](Released(c) => []Released(c))

\* connection 1 was evicted for a full queue, its Unregister found it absent,
\* and both its tasks have returned
C39_Witness ==
    /\ Released(1)
    /\ last.op = "unregister" /\ last.client = 1 /\ ~Logged("unregistered")
    /\ Len(send[1]) < SendCap

\* C40: membership is enforced for the whole life of a connection: every
\* connection in the registry belongs to a user who is at present a member
\* of that room in the membership store, so a user who has left a room
\* through the leave operation receives no more of the room's broadcasts.
C40_RegisteredAreMembers ==
    \A c \in Conns :
        c \in Members(RoomOf(c)) => <<RoomOf(c), client[c].userID>> \in room_members
====
